---- MODULE Spec2Model ----
(***************************************************************************)
(* A model of the comrade trigger pipeline: the per-character log tailer   *)
(* (watcher.rs), the trigger compiler (config/triggers.rs, triggers.rs),   *)
(* the driver thread (driver.rs) and the event bus between the driver and  *)
(* its consumer.                                                           *)
(*                                                                         *)
(* Text is a sequence of one-character strings.  Time is counted in tick   *)
(* periods of the driver's tick source (250 ms); an Instant is a natural   *)
(* number of tick periods.  An Option is a sequence of length 0 or 1.      *)
(***************************************************************************)
EXTENDS Integers, Sequences, FiniteSets, TLC

----------------------------------------------------------------------------
(* Bounds of the model.                                                    *)

\* The clock stops advancing at MaxTime.
MaxTime == 9
\* Chunks the environment appends to the log files, all files together.
MaxWrites == 3
\* Lines the environment appends while the timers are examined.
MaxTimerLines == 1
\* Rotations of the log file of one character.
MaxRotations == 1
\* Tick periods in the runs of the driver loop.
MaxLoopTime == 1
\* Calls of Watchers::add at run time.
MaxAdds == 1
\* Events one UI tick handles before it looks at the limit, 1000 in
\* App::on_tick, scaled down.
DrainLimit == 2
\* Rows the events tab keeps per list, 100 in EventsTab::event, scaled down.
ListLimit == 2
\* Number of tabs a tab set is made with.
MaxTabs == 4
\* Calls of LogManager::add and LogManager::remove.
MaxManagerCalls == 3
\* The duration of the Countdown events the events tab is given by itself.
TabDuration == 2
\* Capacity of the event bus, bounded(1000) in Driver::create, scaled down.
EventBusCapacity == 2
\* Capacity of the log channel, bounded(1000) in Watchers::default, scaled down.
LogChannelCapacity == 2
\* The latest clock read of one handler run at which the clock may step.
MaxJump == 2
\* Number of Comrade::load calls made at runtime.
MaxLoads == 1
\* Number of lines written while load is called.
MaxLoadLines == 2
\* Chunks appended and rotations made while the order of delivery is examined.
MaxOrderWrites == 5
MaxOrderRotations == 2
\* Errors the driver logs for the log channel.
MaxErrors == 2
\* Notifications that may wait for a handler when the notifier passes an
\* event that is none of Create, Modify and Remove.
MaxQueued == 2

\* Tick periods in one second: durations are whole seconds, the tick source
\* fires every 250 ms.
TicksPerSecond == 4

----------------------------------------------------------------------------
(* Options, text and small helpers.                                        *)

None == <<>>
Some(x) == <<x>>
IsSome(o) == o # <<>>
Unwrap(o) == o[1]

LF == "\n"
CR == "\r"

Max(a, b) == IF a >= b THEN a ELSE b

\* The index of the first occurrence of ch in s, 0 when there is none.
IndexOf(s, ch) ==
  IF \E i \in 1..Len(s) : s[i] = ch
    THEN CHOOSE i \in 1..Len(s) : s[i] = ch /\ \A j \in 1..(i - 1) : s[j] # ch
    ELSE 0

RECURSIVE Concat(_)
Concat(ss) == IF ss = <<>> THEN <<>> ELSE Head(ss) \o Concat(Tail(ss))

RECURSIVE SelectIndices(_, _)
\* The subsequence of s at the indices of the set I, in order.
SelectIndices(s, I) ==
  IF s = <<>> THEN <<>>
  ELSE LET n == Len(s)
           front == SelectIndices(SubSeq(s, 1, n - 1), I)
       IN IF n \in I THEN Append(front, s[n]) ELSE front

----------------------------------------------------------------------------
(* The wire format, watcher.rs RAW_LINE_RE: ^\[([^]]+)\] (.+?)\r?\n$       *)

\* Some(<<date_str, line>>) when the whole buffer matches RAW_LINE_RE.  The
\* date group ends at the first "]"; the lazy message group leaves one
\* trailing \r to the optional \r? unless that would leave it empty.
parse_raw_line(line) ==
  LET n == Len(line)
      k == IndexOf(line, "]")
      body == SubSeq(line, k + 2, n - 1)
      ok == /\ n >= 1
            /\ line[1] = "["
            /\ k >= 3
            /\ k + 1 <= n
            /\ line[k + 1] = " "
            /\ line[n] = LF
            /\ Len(body) >= 1
            /\ \A i \in 1..Len(body) : body[i] # LF
      message == IF Len(body) >= 2 /\ body[Len(body)] = CR
                   THEN SubSeq(body, 1, Len(body) - 1)
                   ELSE body
  IN IF ok THEN Some(<<SubSeq(line, 2, k - 1), message>>) ELSE None

\* NaiveDateTime::parse_from_str(date_str, "%a %b %d %H:%M:%S %Y"): the text
\* <<"t">> stands for a well-formed timestamp, every other text fails to
\* parse and the local wall clock is taken instead.
ParseDate(date_str, wall) ==
  IF date_str = <<"t">> THEN <<"parsed", date_str>> ELSE <<"local", wall>>

----------------------------------------------------------------------------
(* Regular expressions of triggers.  A search_text is a literal text; as   *)
(* an unanchored regex it matches a message that contains it.              *)

\* Regex::captures: Some(capture groups) of the leftmost match; group 0 is
\* the matched text.
Captures(regex, message) ==
  IF \E i \in 1..(Len(message) - Len(regex) + 1) :
        SubSeq(message, i, i + Len(regex) - 1) = regex
    THEN Some([g \in {0} |-> regex])
    ELSE None

\* RegexSet::is_match over the patterns of one character.
RegexSetIsMatch(patterns, line) ==
  \E i \in 1..Len(patterns) : IsSome(Captures(patterns[i], line))

\* Captures::expand: the token "$0" is replaced by group 0, every other
\* token of the template is copied.
RECURSIVE Expand(_, _)
Expand(caps, text) ==
  IF text = <<>> THEN <<>>
  ELSE (IF Head(text) = "$0" THEN caps[0] ELSE <<Head(text)>>)
         \o Expand(caps, Tail(text))

----------------------------------------------------------------------------
(* The configuration: characters (config/mod.rs) and the local trigger set *)
(* (config/triggers.rs).                                                   *)

Secs(n) == n * TicksPerSecond

\* config::triggers::Action, the action templates of a trigger.
DisplayTextTemplate(text, delay) ==
  [type |-> "DisplayText", text |-> text, delay |-> delay]
CountdownTemplate(text, duration, delay) ==
  [type |-> "Countdown", text |-> text, duration |-> duration, delay |-> delay]

\* TriggerSet.triggers of the local source, a BTreeMap iterated in key order.
TriggerIds == <<"T1", "T2", "T3">>
LocalTriggers ==
  [T1 |-> [name |-> "slain", search_text |-> <<"a">>,
           actions |-> << DisplayTextTemplate(<<"d", "$0">>, None),
                          DisplayTextTemplate(<<"l">>, Some(Secs(1))) >>],
   T2 |-> [name |-> "respawn", search_text |-> <<"b">>,
           actions |-> << CountdownTemplate(<<"r">>, Secs(1), None) >>],
   T3 |-> [name |-> "cast", search_text |-> <<"c">>,
           actions |-> << CountdownTemplate(<<"s">>, Secs(1), Some(Secs(1))) >>]]

\* TriggerRef::new(source, id).
TriggerRef(source, id) == <<source, id>>

\* Config.characters, iterated in the order of this sequence.
CharacterIds == <<"c1", "c2">>
Characters ==
  [c1 |-> [name |-> "A", disabled_triggers |-> {}],
   c2 |-> [name |-> "B",
           disabled_triggers |-> {TriggerRef("local", TriggerIds[i]) :
                                    i \in 1..Len(TriggerIds)}]]

\* CompiledTrigger::new(character, trigger): the trigger with its regex.
CompiledTriggerNew(character, trigger_id, trigger) ==
  [character |-> character, trigger |-> trigger_id,
   regex |-> trigger.search_text, actions |-> trigger.actions]

\* A filter pattern that is the search_text anchored at the line's end.
FilterPattern_Anchored(trigger) == Append(trigger.search_text, LF)

\* The pattern Triggers::load pushes for the character's filter when it has
\* compiled the trigger: trigger.search_text.clone().
FilterPattern(trigger) == trigger.search_text

\* The trigger ids a character has not disabled, in BTreeMap order.
EnabledIds(characters, c) ==
  SelectIndices(TriggerIds,
    {i \in 1..Len(TriggerIds) :
       TriggerRef("local", TriggerIds[i]) \notin characters[c].disabled_triggers})

\* Triggers::load: per character the compiled triggers and the patterns of
\* its filter; a character with no enabled trigger has no entry in either map.
TriggersLoad(triggers, characters) ==
  LET withEntry == {c \in DOMAIN characters : EnabledIds(characters, c) # <<>>}
  IN [compiled |->
        [c \in withEntry |->
           [i \in 1..Len(EnabledIds(characters, c)) |->
              CompiledTriggerNew(c, EnabledIds(characters, c)[i],
                                 triggers[EnabledIds(characters, c)[i]])]],
      filters |->
        [c \in withEntry |->
           [i \in 1..Len(EnabledIds(characters, c)) |->
              FilterPattern(triggers[EnabledIds(characters, c)[i]])]]]

\* Regex::new(search_text): the compiled pattern, or none when the text is
\* not a regular expression; an unclosed group is the text that is not.
RegexNew(search_text) ==
  IF \E i \in 1..Len(search_text) : search_text[i] = "(" THEN None
  ELSE Some(search_text)

\* A triggers.toml whose second trigger has a search_text that does not
\* compile; the first and the third compile.
InvalidTriggers ==
  [T1 |-> [search_text |-> <<"d">>,
           actions |-> <<DisplayTextTemplate(<<"d">>, None)>>],
   T2 |-> [search_text |-> <<"(">>,
           actions |-> <<DisplayTextTemplate(<<"e">>, None)>>],
   T3 |-> [search_text |-> <<"c">>,
           actions |-> <<DisplayTextTemplate(<<"f">>, None)>>]]

\* The trigger files a load may find in the data directory.
TriggerFiles == {LocalTriggers, InvalidTriggers}

\* The (trigger, character) pairs in the order of the two loops of
\* Triggers::load: triggers outermost, characters innermost.
LoadPairs(characters) ==
  Concat([i \in 1..Len(TriggerIds) |->
            SelectIndices([j \in 1..Len(CharacterIds) |->
                             <<TriggerIds[i], CharacterIds[j]>>],
                          {j \in 1..Len(CharacterIds) :
                             CharacterIds[j] \in DOMAIN characters})])

\* map.entry(key).or_insert_with(Vec::new).push(value).
EntryPush(map, key, value) ==
  IF key \in DOMAIN map THEN [map EXCEPT ![key] = Append(@, value)]
  ELSE [k \in DOMAIN map \cup {key} |->
          IF k = key THEN <<value>> ELSE map[k]]

\* The two loops of Triggers::load over the local maps compiled and filters:
\* the ? after CompiledTrigger::new leaves the loops at the first enabled
\* trigger whose search_text does not compile.  The result holds the local
\* maps as they are when the loops are left.
RECURSIVE CompileFrom(_, _, _, _)
CompileFrom(triggers, characters, pairs, maps) ==
  IF pairs = <<>> THEN [ok |-> TRUE, maps |-> maps]
  ELSE LET id == pairs[1][1]
           c == pairs[1][2]
       IN IF TriggerRef("local", id) \in characters[c].disabled_triggers
            THEN CompileFrom(triggers, characters, Tail(pairs), maps)
          ELSE IF ~IsSome(RegexNew(triggers[id].search_text))
            THEN [ok |-> FALSE, maps |-> maps]
          ELSE CompileFrom(triggers, characters, Tail(pairs),
                 [compiled |-> EntryPush(maps.compiled, c,
                                 CompiledTriggerNew(c, id, triggers[id])),
                  filters |-> EntryPush(maps.filters, c,
                                FilterPattern(triggers[id]))])

\* The maps of a Triggers value before anything is loaded.
NoTriggers == [compiled |-> <<>>, filters |-> <<>>]

\* A load that returns what it compiled before the failing trigger.
TriggersTryLoad_Partial(triggers, characters) ==
  [ok |-> TRUE,
   value |-> CompileFrom(triggers, characters, LoadPairs(characters),
                         NoTriggers).maps]

\* Triggers::load as a Result: Ok(Triggers) built from the local maps when
\* every enabled trigger compiled, Err otherwise, the local maps dropped.
TriggersTryLoad(triggers, characters) ==
  LET r == CompileFrom(triggers, characters, LoadPairs(characters), NoTriggers)
  IN IF r.ok THEN [ok |-> TRUE, value |-> r.maps]
     ELSE [ok |-> FALSE, value |-> NoTriggers]

\* A filter lookup that admits every line for a character without entry.
TriggersFilter_Open(triggers, id) ==
  IF id \in DOMAIN triggers.filters THEN triggers.filters[id] ELSE << <<>> >>

\* Triggers::filter(id): the RegexSet of the character, or the closed
\* predicate; a filter is modelled by the patterns it tests.
TriggersFilter(triggers, id) ==
  IF id \in DOMAIN triggers.filters THEN triggers.filters[id] ELSE <<>>

\* The filter predicate applied to the message of a line.
FilterAdmits(filter, line) == RegexSetIsMatch(filter, line)

\* config.triggers.compiled().values() as the driver iterates it: every
\* compiled trigger of the snapshot, character by character.
CompiledValues(triggers) ==
  Concat([i \in 1..Len(CharacterIds) |->
            IF CharacterIds[i] \in DOMAIN triggers.compiled
              THEN triggers.compiled[CharacterIds[i]] ELSE <<>>])

\* The configuration snapshot published in the config cell.
LoadedConfig ==
  [characters |-> Characters,
   triggers |-> TriggersLoad(LocalTriggers, Characters)]

\* Config::from_config_dir: the parsed characters with the triggers loaded
\* for them.
ConfigFromConfigDir(characters) ==
  [characters |-> characters,
   triggers |-> TriggersLoad(LocalTriggers, characters)]

\* Config::from_config_dir as a Result: the ? after Triggers::load returns
\* its error and no Config.
ConfigTryFromConfigDir(characters, triggers) ==
  LET r == TriggersTryLoad(triggers, characters)
  IN [ok |-> r.ok,
      value |-> [characters |-> characters, triggers |-> r.value]]

\* What the configuration file may hold when load reads it: the characters
\* as at the start, c2 with no trigger disabled any more, or c1 removed
\* and c2 with every trigger enabled.
CharactersEnabled ==
  [c1 |-> [name |-> "A", disabled_triggers |-> {}],
   c2 |-> [name |-> "B", disabled_triggers |-> {}]]
CharactersRemoved ==
  [c2 |-> [name |-> "B", disabled_triggers |-> {}]]
ConfigFiles == {Characters, CharactersEnabled, CharactersRemoved}

\* A config.toml in which every character has disabled the second trigger.
CharactersT2Disabled ==
  [c1 |-> [name |-> "A", disabled_triggers |-> {TriggerRef("local", "T2")}],
   c2 |-> [name |-> "B",
           disabled_triggers |-> {TriggerRef("local", TriggerIds[i]) :
                                    i \in 1..Len(TriggerIds)}]]
CompileConfigFiles == ConfigFiles \cup {CharactersT2Disabled}

----------------------------------------------------------------------------
(* The clock.  A handler reads Instant::now() several times; the clock may *)
(* step once while the handler runs: its reads from the jump-th on (jump   *)
(* > 0) see base + 1, the earlier ones base.                               *)

Clock(base, jump, k) == IF jump > 0 /\ k >= jump THEN base + 1 ELSE base

\* Instant::duration_since, which saturates at zero.
DurationSince(later, earlier) == Max(later - earlier, 0)

----------------------------------------------------------------------------
(* triggers.rs: live actions.  uid is the identity of the Action value     *)
(* (which firing and which template it was made for); the program does not *)
(* read it.                                                                *)

\* Event::new(kind): an event stamped with the clock.
EventNew(kind, created) == [created |-> created] @@ kind

\* Action::new with the two clock reads of a delayed countdown in the other
\* order: delay_until from the first, ends_at from the second.
ActionNew_DelayReadFirst(caps, action, uid, base, jump, k) ==
  IF action.type = "DisplayText"
    THEN [action |->
            [kind |-> "DisplayText", text |-> Expand(caps, action.text),
             delay_until |->
               IF IsSome(action.delay)
                 THEN Some(Clock(base, jump, k + 1) + Unwrap(action.delay))
                 ELSE None,
             finished |-> FALSE, uid |-> uid],
          reads |-> IF IsSome(action.delay) THEN k + 1 ELSE k]
    ELSE LET start_delay == IF IsSome(action.delay) THEN Unwrap(action.delay) ELSE 0
         IN [action |->
               [kind |-> "Countdown", text |-> Expand(caps, action.text),
                duration |-> action.duration,
                ends_at |->
                  Clock(base, jump, IF IsSome(action.delay) THEN k + 2 ELSE k + 1)
                    + action.duration + start_delay,
                delay_until |->
                  IF IsSome(action.delay)
                    THEN Some(Clock(base, jump, k + 1) + Unwrap(action.delay))
                    ELSE None,
                finished |-> FALSE, uid |-> uid],
             reads |-> IF IsSome(action.delay) THEN k + 2 ELSE k + 1]

\* Action::new(caps, action) for the template `action`; k clock reads were
\* made before.  ends_at and delay_until come from two reads of the clock.
ActionNew(caps, action, uid, base, jump, k) ==
  IF action.type = "DisplayText"
    THEN [action |->
            [kind |-> "DisplayText", text |-> Expand(caps, action.text),
             delay_until |->
               IF IsSome(action.delay)
                 THEN Some(Clock(base, jump, k + 1) + Unwrap(action.delay))
                 ELSE None,
             finished |-> FALSE, uid |-> uid],
          reads |-> IF IsSome(action.delay) THEN k + 1 ELSE k]
    ELSE LET start_delay == IF IsSome(action.delay) THEN Unwrap(action.delay) ELSE 0
         IN [action |->
               [kind |-> "Countdown", text |-> Expand(caps, action.text),
                duration |-> action.duration,
                ends_at |-> Clock(base, jump, k + 1) + action.duration + start_delay,
                delay_until |->
                  IF IsSome(action.delay)
                    THEN Some(Clock(base, jump, k + 2) + Unwrap(action.delay))
                    ELSE None,
                finished |-> FALSE, uid |-> uid],
             reads |-> IF IsSome(action.delay) THEN k + 2 ELSE k + 1]

\* Action::triggered(character, trigger, log).
ActionTriggered(character, trigger, log, uid) ==
  [kind |-> "Triggered", character |-> character, trigger |-> trigger,
   log |-> log, delay_until |-> None, finished |-> FALSE, uid |-> uid]

\* The DisplayText arm without self.finished = true.
ActionEmit_DisplayTextUnfinished(self, base, jump, k) ==
  CASE self.kind = "Triggered" ->
         [action |-> [self EXCEPT !.finished = TRUE],
          out |-> Some(EventNew([kind |-> "Triggered",
                                 character |-> self.character,
                                 trigger |-> self.trigger, log |-> self.log],
                                Clock(base, jump, k + 1))),
          reads |-> k + 1]
    [] self.kind = "DisplayText" ->
         [action |-> self,
          out |-> Some(EventNew([kind |-> "DisplayText", text |-> self.text],
                                Clock(base, jump, k + 1))),
          reads |-> k + 1]
    [] self.kind = "Countdown" ->
         IF Clock(base, jump, k + 1) >= self.ends_at
           THEN [action |-> [self EXCEPT !.finished = TRUE],
                 out |-> Some(EventNew([kind |-> "Countdown", text |-> self.text,
                                        duration |-> self.duration,
                                        remaining |-> 0],
                                       Clock(base, jump, k + 2))),
                 reads |-> k + 2]
           ELSE [action |-> self,
                 out |-> Some(EventNew([kind |-> "Countdown", text |-> self.text,
                                        duration |-> self.duration,
                                        remaining |->
                                          DurationSince(self.ends_at,
                                                        Clock(base, jump, k + 2))],
                                       Clock(base, jump, k + 3))),
                 reads |-> k + 3]

\* The match on self.kind of Action::events, once the delay has passed.
ActionEmit(self, base, jump, k) ==
  CASE self.kind = "Triggered" ->
         [action |-> [self EXCEPT !.finished = TRUE],
          out |-> Some(EventNew([kind |-> "Triggered",
                                 character |-> self.character,
                                 trigger |-> self.trigger, log |-> self.log],
                                Clock(base, jump, k + 1))),
          reads |-> k + 1]
    [] self.kind = "DisplayText" ->
         [action |-> [self EXCEPT !.finished = TRUE],
          out |-> Some(EventNew([kind |-> "DisplayText", text |-> self.text],
                                Clock(base, jump, k + 1))),
          reads |-> k + 1]
    [] self.kind = "Countdown" ->
         IF Clock(base, jump, k + 1) >= self.ends_at
           THEN [action |-> [self EXCEPT !.finished = TRUE],
                 out |-> Some(EventNew([kind |-> "Countdown", text |-> self.text,
                                        duration |-> self.duration,
                                        remaining |-> 0],
                                       Clock(base, jump, k + 2))),
                 reads |-> k + 2]
           ELSE [action |-> self,
                 out |-> Some(EventNew([kind |-> "Countdown", text |-> self.text,
                                        duration |-> self.duration,
                                        remaining |->
                                          DurationSince(self.ends_at,
                                                        Clock(base, jump, k + 2))],
                                       Clock(base, jump, k + 3))),
                 reads |-> k + 3]

\* Action::events that never finds a delay reached.
ActionEvents_NeverDue(self, base, jump, k) ==
  IF IsSome(self.delay_until)
    THEN [action |-> self, out |-> None, reads |-> k + 1]
    ELSE ActionEmit(self, base, jump, k)

\* Action::events without self.delay_until = None.
ActionEvents_DelayKept(self, base, jump, k) ==
  IF IsSome(self.delay_until)
    THEN IF Clock(base, jump, k + 1) >= Unwrap(self.delay_until)
           THEN ActionEmit(self, base, jump, k + 1)
           ELSE [action |-> self, out |-> None, reads |-> k + 1]
    ELSE ActionEmit(self, base, jump, k)

\* Action::events: nothing while delay_until is in the future; the first
\* call that finds it reached clears it.
ActionEvents(self, base, jump, k) ==
  IF IsSome(self.delay_until)
    THEN IF Clock(base, jump, k + 1) >= Unwrap(self.delay_until)
           THEN ActionEmit([self EXCEPT !.delay_until = None], base, jump, k + 1)
           ELSE [action |-> self, out |-> None, reads |-> k + 1]
    ELSE ActionEmit(self, base, jump, k)

\* The templates of a trigger mapped through Action::new, in order.
RECURSIVE NewActions(_, _, _, _, _, _, _)
NewActions(caps, templates, i, uid, base, jump, k) ==
  IF i > Len(templates) THEN [actions |-> <<>>, reads |-> k]
  ELSE LET a == ActionNew(caps, templates[i], Append(uid, i), base, jump, k)
           rest == NewActions(caps, templates, i + 1, uid, base, jump, a.reads)
       IN [actions |-> <<a.action>> \o rest.actions, reads |-> rest.reads]

\* execute without the Triggered action at the head of the list.
CompiledTriggerExecute_NoTriggered(self, event, base, jump, k) ==
  LET caps == Captures(self.regex, event.message)
      uid == <<event.arc, self.character, self.trigger>>
      made == NewActions(Unwrap(caps), self.actions, 1, uid, base, jump, k)
  IN IF IsSome(caps)
       THEN [actions |-> Some(made.actions), reads |-> made.reads]
       ELSE [actions |-> None, reads |-> k]

\* execute with the Triggered action at the end of the list.
CompiledTriggerExecute_TriggeredLast(self, event, base, jump, k) ==
  LET caps == Captures(self.regex, event.message)
      uid == <<event.arc, self.character, self.trigger>>
      made == NewActions(Unwrap(caps), self.actions, 1, uid, base, jump, k)
  IN IF IsSome(caps)
       THEN [actions |->
               Some(made.actions \o
                    <<ActionTriggered(self.character, self.trigger, event,
                                      Append(uid, 0))>>),
             reads |-> made.reads]
       ELSE [actions |-> None, reads |-> k]

\* CompiledTrigger::execute(event): None when the regex does not match the
\* message, else the Triggered action followed by one action per template.
CompiledTriggerExecute(self, event, base, jump, k) ==
  LET caps == Captures(self.regex, event.message)
      uid == <<event.arc, self.character, self.trigger>>
      made == NewActions(Unwrap(caps), self.actions, 1, uid, base, jump, k)
  IN IF IsSome(caps)
       THEN [actions |->
               Some(<<ActionTriggered(self.character, self.trigger, event,
                                      Append(uid, 0))>> \o made.actions),
             reads |-> made.reads]
       ELSE [actions |-> None, reads |-> k]

----------------------------------------------------------------------------
(* State.                                                                  *)

VARIABLES
  now,        \* the clock, in tick periods
  disk,       \* per character, the files its path has named, oldest first
  path,       \* per character, the index in disk of the file now at the path, 0 when absent
  writes,     \* chunks appended so far
  flushes,    \* history: per file, its lengths after each append
  notif,      \* per watcher, the notifications not yet handled, oldest first
  watching,   \* per watcher, whether the path is registered with the notifier
  reader,     \* LogHandler.reader: None or Some([ino, pos])
  buffer,     \* LogHandler.buffer
  filter,     \* LogHandler.filter, the patterns the predicate tests
  tsend,      \* per handler, Some(log event) while process_lines is blocked in send
  logs,       \* the log channel of Watchers, oldest first
  config,     \* the configuration cell
  running,    \* DriverThread.running
  actions,    \* DriverThread.actions
  dpc,        \* the driver thread's position: "select", "log", "tick" or "done"
  dlocal,     \* the locals of the handler the driver thread is in
  ticks,      \* whether the tick channel holds a tick
  cmds,       \* the rendezvous command channel: the commands offered by a blocked sender
  events,     \* the event bus, oldest first
  fired,      \* history: the uids of the Triggered events put on the bus, in order
  hist,       \* history: per action uid, what it was made with and has emitted
  taken,      \* history: the log events the driver has received
  stopped,    \* whether Watchers::stop has returned
  self_triggers, \* Comrade.triggers
  lcall,      \* the Comrade::load call in progress: its options and position
  lhist,      \* history: the load calls made, the state before the last one, its
              \* result and the lengths of the log files when it returned
  senders,    \* whether a sender of the log channel is alive
  errors,     \* history: the errors the driver has logged for the log channel
  whist,      \* history: the registrations made with Watchers::add, the result
              \* of the last one and the handler it found; and per handler the
              \* file it was constructed on
  tabs,       \* App.tabs: the number of tabs and Tabs.index
  messages,   \* EventsTab.messages, newest first
  triggereds, \* EventsTab.triggereds, newest first
  timers,     \* EventsTab.timers, by text
  processed,  \* the local of App::on_tick: events handled in this tick
  apc,        \* the UI thread's position: "idle" or "tick" (inside on_tick)
  readers,    \* LogDispatcher.readers of the LogManager, by path
  watched,    \* the paths registered with the notifier of the LogManager
  mhist       \* history: the calls of LogManager::add and remove made, the
              \* path and result of the last one, and the paths whose reader
              \* was inserted by an add that returned an error

vars == <<now, disk, path, writes, flushes, notif, watching, reader, buffer, filter,
          tsend, logs, config, running, actions, dpc, dlocal, ticks, cmds,
          events, fired, hist, taken, stopped, self_triggers, lcall, lhist,
          senders, errors, whist, tabs, messages, triggereds, timers,
          processed, apc, readers, watched, mhist>>

envVars == <<disk, path, writes, flushes>>
tailerVars == <<reader, buffer, filter, tsend>>
driverVars == <<running, actions, dpc, dlocal, events, fired, hist, taken, errors>>
orchVars == <<config, self_triggers, lcall, lhist, senders, whist>>
uiVars == <<tabs, messages, triggereds, timers, processed, apc>>
managerVars == <<readers, watched, mhist>>

Ids == {CharacterIds[i] : i \in 1..Len(CharacterIds)}

----------------------------------------------------------------------------
(* watcher.rs: the log handler of one watcher.                             *)

\* Lines of the wire format that fire triggers: T1; T1 and T2 (ending
\* \r\n); T3.
TimerLines ==
  { <<"[", "t", "]", " ", "a", LF>>,
    <<"[", "t", "]", " ", "a", "b", CR, LF>>,
    <<"[", "t", "]", " ", "c", LF>> }

\* LogHandler::open_reader: a reader at offset 0 of the file now at the
\* path, None when the open fails.
OpenReader(c) ==
  IF path[c] # 0 THEN Some([ino |-> path[c], pos |-> 0]) ELSE None

\* reopen_reader that moves the new reader to the end of the file, as
\* LogHandler::new does.
ReopenReader_SeekEnd(c) ==
  IF path[c] # 0
    THEN Some([ino |-> path[c], pos |-> Len(disk[c][path[c]])])
    ELSE None

\* LogHandler::reopen_reader.
ReopenReader(c) == OpenReader(c)

\* A reader positioned at the start of the file, as LogHandler::new would
\* be without its seek.
LogHandlerNew_FromStart(ino, content) ==
  [reader |-> IF ino # 0 THEN Some([ino |-> ino, pos |-> 0]) ELSE None,
   buffer |-> <<>>,
   filter |-> <<>>]

\* LogHandler::new on the file ino with the given content (ino 0: the open
\* fails): the reader is opened and, when there is one, moved to the end of
\* the file; the buffer is empty and the filter rejects all.
LogHandlerNew(ino, content) ==
  [reader |-> IF ino # 0 THEN Some([ino |-> ino, pos |-> Len(content)]) ELSE None,
   buffer |-> <<>>,
   filter |-> <<>>]

\* LogHandler::new on a file given as None or Some(content), the file
\* being the ino-th to have the path.
Constructed(file, ino) ==
  IF IsSome(file) THEN LogHandlerNew(ino, Unwrap(file))
  ELSE LogHandlerNew(0, <<>>)

\* What is remembered of a construction: whether the file was there, which
\* file it was and its length.
Built(file, ino) ==
  [exists |-> IsSome(file), ino |-> IF IsSome(file) THEN ino ELSE 0,
   len |-> IF IsSome(file) THEN Len(Unwrap(file)) ELSE 0]

\* BufRead::read_line: the text from pos up to and including the next \n,
\* or up to the end of the file.
ReadLine(content, pos) ==
  LET rest == SubSeq(content, pos + 1, Len(content))
      nl == IndexOf(rest, LF)
  IN IF nl > 0 THEN SubSeq(rest, 1, nl) ELSE rest

\* A process_lines that skips a line whose timestamp does not parse.
LineEvent_ParsedDatesOnly(c, buf, flt, arc, wall) ==
  LET parsed == parse_raw_line(buf)
  IN IF /\ IsSome(parsed)
        /\ FilterAdmits(flt, Unwrap(parsed)[2])
        /\ ParseDate(Unwrap(parsed)[1], wall)[1] = "parsed"
       THEN Some([id |-> c, date |-> ParseDate(Unwrap(parsed)[1], wall),
                  message |-> Unwrap(parsed)[2], arc |-> arc])
       ELSE None

\* The LogEvent sent for a buffer, None when the buffer is not of the wire
\* format or the filter rejects its message.  arc is the identity of the
\* Arc<LogEvent>: the place in the file its line was read from.
LineEvent(c, buf, flt, arc, wall) ==
  LET parsed == parse_raw_line(buf)
  IN IF IsSome(parsed) /\ FilterAdmits(flt, Unwrap(parsed)[2])
       THEN Some([id |-> c, date |-> ParseDate(Unwrap(parsed)[1], wall),
                  message |-> Unwrap(parsed)[2], arc |-> arc])
       ELSE None

\* A send after which the line stays in the buffer.
LogChannelSend_KeepBuffer(h) ==
  IF Len(h.logs) >= LogChannelCapacity
    THEN h
    ELSE [h EXCEPT !.logs = Append(h.logs, Unwrap(h.send)),
                   !.send = None]

\* A send that gives the event up when the log channel is full.
LogChannelSend_TrySend(h) ==
  IF Len(h.logs) >= LogChannelCapacity
    THEN [h EXCEPT !.send = None, !.buffer = <<>>]
    ELSE [h EXCEPT !.logs = Append(h.logs, Unwrap(h.send)),
                   !.send = None,
                   !.buffer = <<>>]

\* self.sender.send(event) on the bounded log channel, and the end of the
\* loop's iteration: with the channel full the handler waits in send,
\* otherwise the event is queued and the buffer cleared.
LogChannelSend(h) ==
  IF Len(h.logs) >= LogChannelCapacity
    THEN h
    ELSE [h EXCEPT !.logs = Append(h.logs, Unwrap(h.send)),
                   !.send = None,
                   !.buffer = <<>>]

\* LogHandler::process_lines from the state h = [reader, buffer, send,
\* logs]: the loop runs until read_line returns 0 or a send finds the log
\* channel full; a send that has room completes, and the buffer is cleared
\* at the end of every iteration.
RECURSIVE ProcessLines(_, _, _, _)
ProcessLines(c, h, flt, wall) ==
  IF IsSome(h.send)
    THEN IF IsSome(LogChannelSend(h).send)
           THEN h
           ELSE ProcessLines(c, LogChannelSend(h), flt, wall)
    ELSE IF ~IsSome(h.reader) THEN h
    ELSE LET r == Unwrap(h.reader)
             got == ReadLine(disk[c][r.ino], r.pos)
             buf == h.buffer \o got
             ev == LineEvent(c, buf, flt, <<c, r.ino, r.pos>>, wall)
             h1 == [h EXCEPT !.reader = Some([r EXCEPT !.pos = r.pos + Len(got)])]
         IN IF Len(got) = 0 THEN h
            ELSE IF IsSome(ev)
                   THEN ProcessLines(c, [h1 EXCEPT !.buffer = buf, !.send = ev],
                                     flt, wall)
                   ELSE ProcessLines(c, [h1 EXCEPT !.buffer = <<>>], flt, wall)

\* A handler mutex that set_filter finds free at any time.
HandlerLocked_Never(c) == FALSE

\* The mutex of handler c is held: the notifier's callback locks it for the
\* whole of handle_event, which is one step but for a send that waits.
HandlerLocked(c) == IsSome(tsend[c])

\* The handler state of watcher c, and its effect on the variables.
Handler(c) ==
  [reader |-> reader[c], buffer |-> buffer[c], send |-> tsend[c], logs |-> logs]

SetHandler(c, h) ==
  /\ reader' = [reader EXCEPT ![c] = h.reader]
  /\ buffer' = [buffer EXCEPT ![c] = h.buffer]
  /\ tsend' = [tsend EXCEPT ![c] = h.send]
  /\ logs' = h.logs

\* A handle_event that gives up the reader of a removed file.
HandleKind_RemoveCloses(c, h, kind, flt, wall) ==
  CASE kind = "Create" -> [h EXCEPT !.reader = ReopenReader(c)]
    [] kind = "Modify" -> ProcessLines(c, h, flt, wall)
    [] kind = "Remove" -> [h EXCEPT !.reader = None]
    [] OTHER -> h

\* The match of LogHandler::handle_event on what the notifier passes: an
\* event of kind Create, Modify, Remove, Access or another kind ("Other"),
\* or the notifier's error ("Error").
HandleKind(c, h, kind, flt, wall) ==
  CASE kind = "Create" -> [h EXCEPT !.reader = ReopenReader(c)]
    [] kind = "Modify" -> ProcessLines(c, h, flt, wall)
    [] kind = "Remove" -> h
    [] kind = "Access" -> h
    [] kind = "Other" -> h
    [] kind = "Error" -> h

\* LogHandler::handle_event for the oldest notification of watcher c.
HandleEvent(c) ==
  /\ notif[c] # <<>>
  /\ ~IsSome(tsend[c])
  /\ notif' = [notif EXCEPT ![c] = Tail(notif[c])]
  /\ SetHandler(c, HandleKind(c, Handler(c), Head(notif[c]), filter[c], now))
  /\ UNCHANGED <<now, envVars, watching, filter, orchVars, uiVars, managerVars, driverVars, ticks,
                 cmds, stopped>>

\* process_lines of watcher c, blocked in send, goes on once the log
\* channel has room.
HandleEventResume(c) ==
  /\ IsSome(tsend[c])
  /\ Len(logs) < LogChannelCapacity
  /\ SetHandler(c, ProcessLines(c, Handler(c), filter[c], now))
  /\ UNCHANGED <<now, envVars, notif, watching, filter, orchVars, uiVars, managerVars, driverVars,
                 ticks, cmds, stopped>>

\* Watchers::stop: every watcher is unregistered; unwatch is answered by
\* the notifier thread, so it returns between two callbacks.
WatchersStop ==
  /\ ~stopped
  /\ \A c \in Ids : ~IsSome(tsend[c])
  /\ stopped' = TRUE
  /\ watching' = [c \in Ids |-> FALSE]
  /\ notif' = [c \in Ids |-> <<>>]
  /\ UNCHANGED <<now, envVars, tailerVars, logs, orchVars, uiVars, managerVars, driverVars, ticks, cmds>>

\* Watchers is dropped: every watcher is unregistered and dropped with its
\* handler, and with them every sender of the log channel.
WatchersDrop ==
  /\ senders
  /\ \A c \in Ids : ~IsSome(tsend[c])
  /\ senders' = FALSE
  /\ watching' = [c \in Ids |-> FALSE]
  /\ notif' = [c \in Ids |-> <<>>]
  /\ UNCHANGED <<now, envVars, tailerVars, logs, config, self_triggers, lcall,
                 lhist, whist, uiVars, managerVars, driverVars, ticks, cmds, stopped>>

\* The file now at the path of character c: None or Some(content).
CurrentFile(c) == IF path[c] # 0 THEN Some(disk[c][path[c]]) ELSE None

\* Watchers::add(id, filename) for an id that has a watcher, between two
\* callbacks of that watcher: LogWatcher::new either fails, and nothing is
\* inserted, or HashMap::insert puts the new watcher in the place of the
\* old one, which is dropped with its handler and its registration.  The
\* new watcher is registered by the next Watchers::start.
WatchersAdd(c) ==
  /\ senders
  /\ whist.n < MaxAdds
  /\ ~IsSome(tsend[c])
  /\ \/ /\ whist' = [whist EXCEPT !.n = @ + 1, !.result = "Err", !.id = c,
                                   !.before = [reader |-> reader[c],
                                               buffer |-> buffer[c],
                                               filter |-> filter[c]]]
        /\ UNCHANGED <<reader, buffer, filter, watching, notif>>
     \/ LET h == Constructed(CurrentFile(c), path[c])
        IN /\ reader' = [reader EXCEPT ![c] = h.reader]
           /\ buffer' = [buffer EXCEPT ![c] = h.buffer]
           /\ filter' = [filter EXCEPT ![c] = h.filter]
           /\ watching' = [watching EXCEPT ![c] = FALSE]
           /\ notif' = [notif EXCEPT ![c] = <<>>]
           /\ whist' = [whist EXCEPT !.n = @ + 1, !.result = "Ok", !.id = c,
                                      !.before = [reader |-> reader[c],
                                                  buffer |-> buffer[c],
                                                  filter |-> filter[c]],
                                      !.built[c] = Built(CurrentFile(c), path[c])]
  /\ UNCHANGED <<now, envVars, tsend, logs, config, self_triggers, lcall, lhist,
                 senders, driverVars, ticks, cmds, stopped, uiVars, managerVars>>

\* Watchers::start: every watcher registers its path with the notifier.
WatchersStart ==
  /\ senders
  /\ ~stopped
  /\ \E c \in Ids : ~watching[c]
  /\ watching' = [c \in Ids |-> TRUE]
  /\ UNCHANGED <<now, envVars, notif, tailerVars, logs, orchVars, uiVars, managerVars, driverVars,
                 ticks, cmds, stopped>>

----------------------------------------------------------------------------
(* The environment: the game appends to and rotates the log files, and     *)
(* time passes.                                                            *)

\* The notifier queues a notification for a registered path.
Notify(c, kind) ==
  notif' = [notif EXCEPT ![c] = IF watching[c] THEN Append(@, kind) ELSE @]

\* The text chunk is appended to the file of character c.
Write(c, chunk, max) ==
  /\ writes < max
  /\ path[c] # 0
  /\ disk' = [disk EXCEPT ![c][path[c]] = @ \o chunk]
  /\ flushes' = [flushes EXCEPT ![c][path[c]] = @ \cup {Len(disk'[c][path[c]])}]
  /\ writes' = writes + 1
  /\ Notify(c, "Modify")
  /\ UNCHANGED <<now, path, watching, tailerVars, logs, orchVars, uiVars, managerVars, driverVars,
                 ticks, cmds, stopped>>

\* The file of character c is rotated, at most max times: a new, empty file
\* takes the path.
RotateUpTo(c, max) ==
  /\ Len(disk[c]) < max + 1
  /\ disk' = [disk EXCEPT ![c] = Append(@, <<>>)]
  /\ flushes' = [flushes EXCEPT ![c] = Append(@, {})]
  /\ path' = [path EXCEPT ![c] = Len(disk[c]) + 1]
  /\ Notify(c, "Create")
  /\ UNCHANGED <<now, writes, watching, tailerVars, logs, orchVars, uiVars, managerVars, driverVars,
                 ticks, cmds, stopped>>

Rotate(c) == RotateUpTo(c, MaxRotations)

\* The file of character c is removed: nothing has the path.
Remove(c) ==
  /\ path[c] # 0
  /\ path' = [path EXCEPT ![c] = 0]
  /\ Notify(c, "Remove")
  /\ UNCHANGED <<now, disk, writes, flushes, watching, tailerVars, logs,
                 orchVars, uiVars, managerVars, driverVars, ticks, cmds, stopped>>

\* What the notifier passes besides Create, Modify and Remove: an Access
\* event (the file is opened, read or closed), an event of another kind, or
\* an error of the notifier.
NoiseKinds == {"Access", "Other", "Error"}

\* The notifier passes one of them for the path of character c, while
\* fewer than MaxQueued notifications wait for its handler.
Noise(c, kind) ==
  /\ Len(notif[c]) < MaxQueued
  /\ Notify(c, kind)
  /\ notif'[c] # notif[c]
  /\ UNCHANGED <<now, envVars, watching, tailerVars, logs, orchVars, uiVars, managerVars,
                 driverVars, ticks, cmds, stopped>>

\* Lines whose arrival is examined: one of the wire format that fires T1,
\* one of the wire format that no trigger matches, and one that is not of
\* the wire format although its end is.
TailLines ==
  { <<"[", "t", "]", " ", "a", LF>>,
    <<"[", "t", "]", " ", "d", LF>>,
    <<"x", "[", "t", "]", " ", "a", LF>> }

\* The unterminated end of a text: what follows its last \n.
RECURSIVE OpenEnd(_)
OpenEnd(text) ==
  IF text = <<>> \/ text[Len(text)] = LF THEN <<>>
  ELSE Append(OpenEnd(SubSeq(text, 1, Len(text) - 1)), text[Len(text)])

\* The chunks that may follow the text when the game writes the lines of
\* the set lines and flushes in the middle of a line or at its end: those
\* that go on with a line, up to its first character or up to its end.
ChunksOf(lines, text) ==
  LET open == OpenEnd(text)
  IN UNION { { SubSeq(line, Len(open) + 1, j) :
                 j \in {1, Len(line)} \ (0..Len(open)) } :
             line \in {l \in lines : Len(open) < Len(l)
                                      /\ SubSeq(l, 1, Len(open)) = open} }

Chunks(text) == ChunksOf(TailLines, text)

\* One tick period passes, up to the time max; the tick channel holds at
\* most one tick.
AdvanceUpTo(max) ==
  /\ now < max
  /\ now' = now + 1
  /\ ticks' = TRUE
  /\ UNCHANGED <<envVars, notif, watching, tailerVars, logs, orchVars, uiVars, managerVars,
                 driverVars, cmds, stopped>>

Advance == AdvanceUpTo(MaxTime)

----------------------------------------------------------------------------
(* driver.rs: the driver thread.  A handler runs from the select to the    *)
(* next select, or to a send that finds the event bus full.  Its state d   *)
(* holds the fields of DriverThread, the handler's locals and the number   *)
(* of clock reads made in this run.                                        *)

NoLocal == [ev |-> None, trigs |-> <<>>, todo |-> <<>>, idx |-> 0, send |-> None]

\* A tick that drops nothing.
Retain_KeepAll(acts) == acts

\* self.actions.retain(|action| !action.finished()).
Retain(acts) ==
  SelectIndices(acts, {i \in 1..Len(acts) : ~acts[i].finished})

\* The history of an action just made: nothing emitted yet.
Born(action) ==
  [kind |-> action.kind, due |-> action.delay_until, n |-> 0, first |-> None,
   last |-> None, peak |-> 0, rises |-> 0, zeros |-> 0, after |-> 0]

\* The history of an action after it has emitted event: the number of its
\* events, the clock of the first, and for a countdown the remaining of the
\* last one, the largest remaining, how often remaining rose, how many
\* events had remaining zero and how many followed the first of those.
Emitted(h, event) ==
  LET rem == IF event.kind = "Countdown" THEN event.remaining ELSE 0
  IN [h EXCEPT
        !.n = @ + 1,
        !.first = IF h.n = 0 THEN Some(event.created) ELSE @,
        !.last = IF event.kind = "Countdown" THEN Some(rem) ELSE @,
        !.peak = Max(@, rem),
        !.rises = IF IsSome(h.last) /\ rem > Unwrap(h.last) THEN @ + 1 ELSE @,
        !.zeros = IF event.kind = "Countdown" /\ rem = 0 THEN @ + 1 ELSE @,
        !.after = IF h.zeros > 0 THEN @ + 1 ELSE @]

\* The histories with one entry more for every action of acts.
RECURSIVE Register(_, _)
Register(hs, acts) ==
  IF acts = <<>> THEN hs
  ELSE Register(IF Head(acts).uid \in DOMAIN hs THEN hs
                ELSE hs @@ (Head(acts).uid :> Born(Head(acts))), Tail(acts))

\* The action whose event the handler is sending.
CurrentAction(d) == IF d.pc = "log" THEN Head(d.todo) ELSE d.actions[d.idx]

\* sender.send(event) on the bounded event bus: the event is queued when
\* the bus has room; with the bus full the sender waits.
SendBlocks(bus) == Len(bus) >= EventBusCapacity

\* After action_events: on_log_event keeps an unfinished action and takes
\* the next one of the trigger; on_tick takes the next active action.
NextAction(d) ==
  IF d.pc = "log"
    THEN [d EXCEPT !.actions = IF ~Head(d.todo).finished
                                 THEN Append(@, Head(d.todo)) ELSE @,
                   !.todo = Tail(@)]
    ELSE [d EXCEPT !.idx = @ + 1]

\* The handler returns to the select.
HandlerDone(d) ==
  [d EXCEPT !.pc = "select", !.ev = None, !.idx = 0]

RECURSIVE DriverRun(_, _, _)
DriverRun(d, base, jump) ==
  IF IsSome(d.send)
    THEN \* action_events: sender.send(event)
         IF SendBlocks(d.events) THEN d
         ELSE DriverRun(
                NextAction([d EXCEPT
                  !.events = Append(@, Unwrap(d.send)),
                  !.fired = IF Unwrap(d.send).kind = "Triggered"
                              THEN Append(@, CurrentAction(d).uid) ELSE @,
                  !.hist[CurrentAction(d).uid] = Emitted(@, Unwrap(d.send)),
                  !.send = None]), base, jump)
  ELSE IF d.pc = "log"
    THEN IF d.todo # <<>>
           THEN \* action_events(&self.events, &mut action)
                LET r == ActionEvents(Head(d.todo), base, jump, d.reads)
                    d1 == [d EXCEPT !.todo = <<r.action>> \o Tail(@),
                                    !.reads = r.reads]
                IN IF IsSome(r.out)
                     THEN DriverRun([d1 EXCEPT !.send = r.out], base, jump)
                     ELSE DriverRun(NextAction(d1), base, jump)
         ELSE IF d.trigs # <<>>
           THEN \* trigger.execute(&matched)
                LET x == CompiledTriggerExecute(Head(d.trigs), Unwrap(d.ev),
                                                base, jump, d.reads)
                    made == IF IsSome(x.actions) THEN Unwrap(x.actions) ELSE <<>>
                IN DriverRun([d EXCEPT
                     !.trigs = Tail(@),
                     !.todo = made,
                     !.hist = Register(@, made),
                     !.reads = x.reads], base, jump)
         ELSE HandlerDone(d)
  ELSE IF d.pc = "tick"
    THEN IF d.idx <= Len(d.actions)
           THEN LET r == ActionEvents(d.actions[d.idx], base, jump, d.reads)
                    d1 == [d EXCEPT !.actions[d.idx] = r.action,
                                    !.reads = r.reads]
                IN IF IsSome(r.out)
                     THEN DriverRun([d1 EXCEPT !.send = r.out], base, jump)
                     ELSE DriverRun(NextAction(d1), base, jump)
           ELSE HandlerDone([d EXCEPT !.actions = Retain(@)])
  ELSE d

\* The driver state in the variables, and a handler run's effect on them.
DriverState(pc, ev, trigs, idx) ==
  [pc |-> pc, actions |-> actions, ev |-> ev, trigs |-> trigs,
   todo |-> dlocal.todo, idx |-> idx, send |-> dlocal.send,
   events |-> events, fired |-> fired, hist |-> hist, reads |-> 0]

SetDriver(d, jump) ==
  /\ dpc' = d.pc
  /\ actions' = d.actions
  /\ dlocal' = [ev |-> d.ev, trigs |-> d.trigs, todo |-> d.todo,
                idx |-> d.idx, send |-> d.send]
  /\ events' = d.events
  /\ fired' = d.fired
  /\ hist' = d.hist
  /\ now' = Clock(now, jump, d.reads)

\* The clock steps at most once in a handler run, and not beyond MaxTime;
\* with jump 0 it does not step.
JumpPoints == {j \in 0..MaxJump : j > 0 => now < MaxTime}
NoJump == {0}

\* The character lookup left out: every compiled trigger of the snapshot.
TriggersFor_NoLookup(cfg, matched) == CompiledValues(cfg.triggers)

\* The triggers on_log_event runs for matched under the snapshot cfg: none
\* when config.characters.get(&matched.id) is None, else every compiled
\* trigger of the snapshot.
TriggersFor(cfg, matched) ==
  IF matched.id \in DOMAIN cfg.characters
    THEN CompiledValues(cfg.triggers) ELSE <<>>

\* A loop that takes the next message also while its handler waits in send
\* on the full bus.
AtSelect_WhileSending ==
  dpc = "select" \/ (IsSome(dlocal.send) /\ SendBlocks(events))

\* DriverThread::run: the select! is reached only when the handler of the
\* message before has returned.
AtSelect == dpc = "select"

\* A handler that loads the configuration again when it goes on: the
\* triggers not yet tried are those of the snapshot now in the cell.
HeldTriggers_Reloaded(held, cfg, ev) ==
  IF ~IsSome(ev) THEN held
  ELSE LET all == TriggersFor(cfg, Unwrap(ev))
       IN IF Len(held) <= Len(all)
            THEN SubSeq(all, Len(all) - Len(held) + 1, Len(all))
            ELSE all

\* let config = self.config.load(): the handler holds the snapshot it
\* loaded until it returns; the triggers not yet tried are those of that
\* snapshot, whatever the cell cfg holds now.
HeldTriggers(held, cfg, ev) == held

\* DriverThread::on_log_event for the oldest event of the log channel.  The
\* configuration is loaded once; an unknown character drops the event.
OnLogEvent(jumps) ==
  /\ AtSelect
  /\ running
  /\ logs # <<>>
  /\ logs' = Tail(logs)
  /\ taken' = taken \cup {Head(logs)}
  /\ \E jump \in jumps :
       LET matched == Head(logs)
           trigs == TriggersFor(config, matched)
       IN /\ SetDriver(DriverRun(DriverState("log", Some(matched), trigs, 0),
                                 now, jump), jump)
          /\ ticks' = (ticks \/ now' > now)
  /\ UNCHANGED <<envVars, notif, watching, tailerVars, orchVars, uiVars, managerVars, running, cmds,
                 stopped, errors>>

\* DriverThread::on_tick: every active action emits, then the finished ones
\* are dropped.
OnTick(jumps) ==
  /\ AtSelect
  /\ running
  /\ ticks
  /\ \E jump \in jumps :
       /\ SetDriver(DriverRun(DriverState("tick", None, <<>>, 1), now, jump), jump)
       /\ ticks' = (now' > now)
  /\ UNCHANGED <<envVars, notif, watching, tailerVars, logs, orchVars, uiVars, managerVars, running,
                 cmds, taken, stopped, errors>>

\* A handler blocked in send goes on once the event bus has room.
DriverResume(jumps) ==
  /\ dpc \in {"log", "tick"}
  /\ ~SendBlocks(events)
  /\ \E jump \in jumps :
       /\ SetDriver(DriverRun(DriverState(dpc, dlocal.ev,
                                          HeldTriggers(dlocal.trigs, config,
                                                       dlocal.ev),
                                          dlocal.idx),
                              now, jump), jump)
       /\ ticks' = (ticks \/ now' > now)
  /\ UNCHANGED <<envVars, notif, watching, tailerVars, logs, orchVars, uiVars, managerVars, running,
                 cmds, taken, stopped, errors>>

\* select! takes recv(self.logs) on the empty, disconnected log channel:
\* the Err arm logs the error and the loop goes round.
OnLogsDisconnected ==
  /\ AtSelect
  /\ running
  /\ logs = <<>>
  /\ ~senders
  /\ errors < MaxErrors
  /\ errors' = errors + 1
  /\ UNCHANGED <<now, envVars, notif, watching, tailerVars, logs, orchVars, uiVars, managerVars,
                 running, actions, dpc, dlocal, ticks, cmds, events, fired, hist,
                 taken, stopped>>

\* DriverThread::on_command(Stop): the loop ends and the thread returns.
OnCommand ==
  /\ AtSelect
  /\ running
  /\ cmds # <<>>
  /\ cmds' = <<>>
  /\ running' = FALSE
  /\ dpc' = "done"
  /\ UNCHANGED <<now, envVars, notif, watching, tailerVars, logs, orchVars, uiVars, managerVars,
                 actions, dlocal, ticks, events, fired, hist, taken, stopped, errors>>

\* Drop for Driver: Stop is offered on the rendezvous channel.
DriverDrop ==
  /\ running
  /\ cmds = <<>>
  /\ cmds' = <<"Stop">>
  /\ UNCHANGED <<now, envVars, notif, watching, tailerVars, logs, orchVars, uiVars, managerVars,
                 driverVars, ticks, stopped>>

\* A receive that takes the newest event of the bus.
TryRecv_Newest(bus) ==
  IF bus = <<>> THEN [out |-> None, bus |-> bus]
  ELSE [out |-> Some(bus[Len(bus)]), bus |-> SubSeq(bus, 1, Len(bus) - 1)]

\* self.events.try_recv().ok(): the oldest event of the bus, which leaves
\* the bus, or none when the bus is empty; it does not wait.
TryRecv(bus) ==
  IF bus = <<>> THEN [out |-> None, bus |-> bus]
  ELSE [out |-> Some(Head(bus)), bus |-> Tail(bus)]

\* Driver::event returning an event; a call that returns none changes
\* nothing.
DriverEvent ==
  /\ IsSome(TryRecv(events).out)
  /\ events' = TryRecv(events).bus
  /\ UNCHANGED <<now, envVars, notif, watching, tailerVars, logs, orchVars, uiVars, managerVars,
                 running, actions, dpc, dlocal, ticks, cmds, fired, hist, taken,
                 stopped, errors>>

\* The owner of the Driver handle polls the bus; it cannot while it is
\* inside drop, which has the handle exclusively.
Poll ==
  /\ cmds = <<>>
  /\ DriverEvent

----------------------------------------------------------------------------
(* lib.rs: Comrade::load, called at runtime on the orchestrator's thread   *)
(* while the tailers and the driver run.  self.config is the snapshot the  *)
(* driver loads; every ? of the call may return the error.                 *)

LoadOptions == {"All", "Config", "Triggers"}

\* No load call is in progress.
NoCall == [pc |-> "idle", opts |-> "None", todo |-> {}]

\* load returns result.
LoadReturn(result) ==
  /\ lcall' = NoCall
  /\ lhist' = [lhist EXCEPT !.result = result,
                            !.mark = [c \in Ids |-> Len(disk[c][path[c]])]]

\* load_config: self.config = Config::from_config_dir(path)?, the
\* directory holding one of the given character files and trigger files.  A
\* search_text that does not compile is the error InvalidRegex; Err is every
\* other error of reading the directory.
LoadConfigOf(cfiles, tfiles) ==
  /\ lcall.pc = "config"
  /\ \/ /\ UNCHANGED config
        /\ LoadReturn("Err")
     \/ \E characters \in cfiles, triggers \in tfiles :
          LET r == ConfigTryFromConfigDir(characters, triggers)
          IN IF r.ok
               THEN /\ config' = r.value
                    /\ IF lcall.opts = "All"
                         THEN /\ lcall' = [lcall EXCEPT !.pc = "triggers"]
                              /\ UNCHANGED lhist
                         ELSE LoadReturn("Ok")
               ELSE /\ UNCHANGED config
                    /\ LoadReturn("InvalidRegex")
  /\ UNCHANGED <<now, envVars, notif, watching, tailerVars, logs, self_triggers,
                 senders, whist, uiVars, managerVars, driverVars, ticks, cmds, stopped>>

\* load_config with the trigger file every search_text of which compiles.
LoadConfig == LoadConfigOf(ConfigFiles, {LocalTriggers})

\* load_triggers: self.triggers = Triggers::load(data_dir)?, for the
\* characters of self.config; then apply_watcher_filters.
LoadTriggersOf(tfiles) ==
  /\ lcall.pc = "triggers"
  /\ \/ /\ UNCHANGED self_triggers
        /\ LoadReturn("Err")
     \/ \E triggers \in tfiles :
          LET r == TriggersTryLoad(triggers, config.characters)
          IN IF r.ok
               THEN /\ self_triggers' = r.value
                    /\ lcall' = [lcall EXCEPT !.pc = "filters", !.todo = Ids]
                    /\ UNCHANGED lhist
               ELSE /\ UNCHANGED self_triggers
                    /\ LoadReturn("InvalidRegex")
  /\ UNCHANGED <<now, envVars, notif, watching, tailerVars, logs, config,
                 senders, whist, uiVars, managerVars, driverVars, ticks, cmds, stopped>>

\* load_triggers with the trigger file every search_text of which compiles.
LoadTriggers == LoadTriggersOf({LocalTriggers})

\* apply_watcher_filters, one watcher of self.watchers.values():
\* watcher.set_filter(self.triggers.as_filter()?) takes the handler's lock,
\* which a handler inside handle_event holds.  After the last watcher load
\* returns.
ApplyWatcherFilters ==
  /\ lcall.pc = "filters"
  /\ \/ /\ UNCHANGED filter
        /\ LoadReturn("Err")
     \/ \E c \in lcall.todo :
          /\ ~HandlerLocked(c)
          /\ filter' = [filter EXCEPT ![c] = TriggersFilter(self_triggers, c)]
          /\ IF lcall.todo = {c}
               THEN LoadReturn("Ok")
               ELSE /\ lcall' = [lcall EXCEPT !.todo = @ \ {c}]
                    /\ UNCHANGED lhist
  /\ UNCHANGED <<now, envVars, notif, watching, reader, buffer, tsend, logs,
                 config, self_triggers, senders, whist, uiVars, managerVars, driverVars, ticks, cmds, stopped>>

\* Comrade::load(opts) is called.
Load(opts) ==
  /\ lcall.pc = "idle"
  /\ lhist.n < MaxLoads
  /\ lcall' = [pc |-> IF opts = "Triggers" THEN "triggers" ELSE "config",
               opts |-> opts, todo |-> {}]
  /\ lhist' = [lhist EXCEPT
                 !.n = @ + 1, !.result = "None",
                 !.before = [config |-> config, triggers |-> self_triggers]]
  /\ UNCHANGED <<now, envVars, notif, watching, tailerVars, logs, config,
                 self_triggers, senders, whist, uiVars, managerVars, driverVars, ticks, cmds, stopped>>

----------------------------------------------------------------------------
(* The system after Comrade::init and start: every character has a watcher *)
(* on its (empty) log file, with the filter of its triggers.               *)

----------------------------------------------------------------------------
(* logwatch.rs: the LogManager, which keeps a LogReader per path in its    *)
(* dispatcher and registers the path with its notifier.  A path is the log *)
(* file of a character, or one that has no file name.                      *)

NoFileName == ".."
ManagerPaths == Ids \cup {NoFileName}

\* LogReader::new(filename) for a path with a file name: the file is opened
\* and, when there is one, the reader is moved to its end.
LogReaderNew(c) ==
  [reader |-> IF path[c] # 0
                THEN Some([ino |-> path[c], pos |-> Len(disk[c][path[c]])])
                ELSE None,
   buffer |-> <<>>]

\* LogDispatcher::add, the Vacant arm.
DispatcherInsert(map, key, rdr) ==
  [k \in DOMAIN map \cup {key} |-> IF k = key THEN rdr ELSE map[k]]

\* LogDispatcher::remove.
DispatcherRemove(map, key) == [k \in DOMAIN map \ {key} |-> map[k]]

\* LogManager::add(filename): LogReader::new fails for a path without file
\* name; LogDispatcher::add fails with AlreadyWatching when the path has a
\* reader, else inserts the new one; then watcher.watch registers the path,
\* and its error is returned with ?.
LogManagerAdd(m, p, watch_ok) ==
  IF p = NoFileName
    THEN [readers |-> m.readers, watched |-> m.watched, result |-> "InvalidPath"]
  ELSE IF p \in DOMAIN m.readers
    THEN [readers |-> m.readers, watched |-> m.watched,
          result |-> "AlreadyWatching"]
  ELSE IF ~watch_ok
    THEN [readers |-> DispatcherInsert(m.readers, p, LogReaderNew(p)),
          watched |-> m.watched, result |-> "Notify"]
  ELSE [readers |-> DispatcherInsert(m.readers, p, LogReaderNew(p)),
        watched |-> m.watched \cup {p}, result |-> "Ok"]

\* LogManager::remove(filename): the reader is removed, then the path is
\* unregistered, which fails for a path that is not registered.
LogManagerRemove(m, p) ==
  [readers |-> DispatcherRemove(m.readers, p),
   watched |-> m.watched \ {p},
   result |-> IF p \in m.watched THEN "Ok" ELSE "Notify"]

\* LogManager::new: no reader, nothing registered.
LogManagerNew == [readers |-> <<>>, watched |-> {}]

\* The notifier's watch fails for a path at which there is no file; it can
\* fail for one at which there is (the limit of watches is reached).
WatchOutcomes(p) == IF path[p] # 0 THEN BOOLEAN ELSE {FALSE}

\* The owner calls LogManager::add(p).
ManagerAdd(p) ==
  /\ mhist.n < MaxManagerCalls
  /\ \E watch_ok \in (IF p \in Ids THEN WatchOutcomes(p) ELSE {FALSE}) :
       LET r == LogManagerAdd([readers |-> readers, watched |-> watched],
                              p, watch_ok)
       IN /\ readers' = r.readers
          /\ watched' = r.watched
          /\ mhist' = [n |-> mhist.n + 1, call |-> "add", path |-> p,
                       result |-> r.result,
                       stale |-> IF r.result # "Ok" /\ p \in DOMAIN r.readers
                                      /\ p \notin DOMAIN readers
                                   THEN mhist.stale \cup {p}
                                   ELSE mhist.stale,
                       blamed |-> r.result = "AlreadyWatching"
                                    /\ p \in mhist.stale]
  /\ UNCHANGED <<now, envVars, notif, watching, tailerVars, logs, orchVars,
                 uiVars, driverVars, ticks, cmds, stopped>>

\* The owner calls LogManager::remove(p).
ManagerRemove(p) ==
  /\ mhist.n < MaxManagerCalls
  /\ LET r == LogManagerRemove([readers |-> readers, watched |-> watched], p)
     IN /\ readers' = r.readers
        /\ watched' = r.watched
        /\ mhist' = [n |-> mhist.n + 1, call |-> "remove", path |-> p,
                     result |-> r.result, stale |-> mhist.stale \ {p},
                     blamed |-> FALSE]
  /\ UNCHANGED <<now, envVars, notif, watching, tailerVars, logs, orchVars,
                 uiVars, driverVars, ticks, cmds, stopped>>

----------------------------------------------------------------------------
(* comrade-cli, app/mod.rs and app/tabs/events.rs: the terminal UI, which  *)
(* owns the engine and is its consumer.                                    *)

\* The tabs App::new makes: Events, Config, Logs, Debug.
AppTabs == 4

\* Tabs::new(tabs): index 0.  len is tabs.len().
TabsNew(len) == [len |-> len, index |-> 0]

\* Tabs::next that does not wrap.
TabsNext_NoWrap(t) == [t EXCEPT !.index = @ + 1]

\* Tabs::next.
TabsNext(t) ==
  LET index == t.index + 1
  IN [t EXCEPT !.index = IF index >= t.len THEN 0 ELSE index]

\* Tabs::previous.
TabsPrevious(t) ==
  [t EXCEPT !.index = IF t.index > 0 THEN t.index - 1 ELSE t.len - 1]

\* The row of a Triggered event: the character (its name and server are
\* formatted from it), the trigger's name and the message of the log line.
TriggeredRow(event) ==
  <<event.character, LocalTriggers[event.trigger].name, event.log.message>>

\* The lists of the events tab never cut.
Drain_KeepAll(list) == list

\* let len = list.len(); if len > 100 { list.drain(100..len); }
Drain(list) ==
  IF Len(list) > ListLimit THEN SubSeq(list, 1, ListLimit) ELSE list

\* HashMap::insert(key, timer): the timer under key, in the place of an
\* earlier one.
TimersInsert(map, key, timer) ==
  [k \in DOMAIN map \cup {key} |-> IF k = key THEN timer ELSE map[k]]

\* timers.retain(|_k, t| !t.remaining.is_zero()).
TimersRetain(map) ==
  [k \in {k \in DOMAIN map : map[k].remaining # 0} |-> map[k]]

\* EventsTab::init: empty lists and no timer.
EventsTabInit == [messages |-> <<>>, triggereds |-> <<>>, timers |-> <<>>]

\* EventsTab::event(event).
EventsTabEvent(tab, event) ==
  CASE event.kind = "Triggered" ->
         [tab EXCEPT !.triggereds = Drain(<<TriggeredRow(event)>> \o @)]
    [] event.kind = "DisplayText" ->
         [tab EXCEPT !.messages = Drain(<<event.text>> \o @)]
    [] event.kind = "Countdown" ->
         [tab EXCEPT !.timers =
            TimersRetain(TimersInsert(@, event.text,
                                      [text |-> event.text,
                                       duration |-> event.duration,
                                       remaining |-> event.remaining]))]

\* The events tab as the value EventsTabEvent works on.
EventsTab == [messages |-> messages, triggereds |-> triggereds, timers |-> timers]

\* The events the events tab is given when it is examined by itself:
\* Triggered events of two triggers and two lines, DisplayText events of
\* two texts, Countdown events of two texts with every remaining time up
\* to the duration.
TabEvents ==
  { EventNew([kind |-> "Triggered", character |-> "c1", trigger |-> t,
              log |-> [id |-> "c1", message |-> msg]], 0) :
      t \in {"T1", "T2"}, msg \in {<<"a">>, <<"a", "b">>} }
  \cup { EventNew([kind |-> "DisplayText", text |-> txt], 0) :
           txt \in {<<"d">>, <<"l">>} }
  \cup { EventNew([kind |-> "Countdown", text |-> txt,
                   duration |-> TabDuration, remaining |-> rem], 0) :
           txt \in {<<"r">>, <<"s">>}, rem \in 0..TabDuration }

\* tab.event(event), as on_tick calls it for an event of the bus.
TabEvent(event) ==
  /\ LET tab == EventsTabEvent(EventsTab, event)
     IN /\ messages' = tab.messages
        /\ triggereds' = tab.triggereds
        /\ timers' = tab.timers
  /\ UNCHANGED <<now, envVars, notif, watching, tailerVars, logs, orchVars,
                 driverVars, ticks, cmds, stopped, tabs, processed, apc,
                 managerVars>>

\* A tick that never looks at the number of events it has handled.
Bail_Never(n) == FALSE

\* if processed > 1000 { break; }
Bail(n) == n > DrainLimit

\* App::run calls on_tick: processed = 0 and the loop is entered.
AppOnTick ==
  /\ apc = "idle"
  /\ apc' = "tick"
  /\ processed' = 0
  /\ UNCHANGED <<now, envVars, notif, watching, tailerVars, logs, orchVars,
                 driverVars, ticks, cmds, stopped, tabs, messages, triggereds,
                 timers,
                 managerVars>>

\* One pass of the loop of App::on_tick: self.comrade.event() returns none
\* and on_tick returns, or it returns the oldest event of the bus, the
\* events tab takes it, processed counts it and on_tick returns when
\* processed has passed the limit.
AppPoll ==
  /\ apc = "tick"
  /\ LET r == TryRecv(events)
     IN IF ~IsSome(r.out)
          THEN /\ apc' = "idle"
               /\ UNCHANGED <<events, messages, triggereds, timers, processed>>
          ELSE LET tab == EventsTabEvent(EventsTab, Unwrap(r.out))
               IN /\ events' = r.bus
                  /\ messages' = tab.messages
                  /\ triggereds' = tab.triggereds
                  /\ timers' = tab.timers
                  /\ processed' = processed + 1
                  /\ apc' = IF Bail(processed + 1) THEN "idle" ELSE "tick"
  /\ UNCHANGED <<now, envVars, notif, watching, tailerVars, logs, orchVars,
                 running, actions, dpc, dlocal, ticks, cmds, fired, hist, taken,
                 stopped, errors, tabs,
                 managerVars>>

\* The keys App::on_event is given; the other keys it handles quit.
Keys == {"Ctrl-Right", "Ctrl-Left", "Other"}

\* App::on_event(Key) between two ticks: Ctrl-Right is tabs.next(),
\* Ctrl-Left is tabs.previous(); the events tab ignores the event.
AppOnEvent(key) ==
  /\ apc = "idle"
  /\ tabs' = CASE key = "Ctrl-Right" -> TabsNext(tabs)
               [] key = "Ctrl-Left" -> TabsPrevious(tabs)
               [] OTHER -> tabs
  /\ UNCHANGED <<now, envVars, notif, watching, tailerVars, logs, orchVars,
                 driverVars, ticks, cmds, stopped, messages, triggereds,
                 timers, processed, apc,
                 managerVars>>

\* The system started with the filters flt in the handlers and a UI of
\* tabcount tabs.
\* files gives per character the log file at construction: None when there
\* is none, else its content.
BootApp(flt, files, tabcount) ==
  /\ readers = LogManagerNew.readers
  /\ watched = LogManagerNew.watched
  /\ mhist = [n |-> 0, call |-> "None", path |-> "None", result |-> "None",
              stale |-> {}, blamed |-> FALSE]
  /\ tabs = TabsNew(tabcount)
  /\ messages = EventsTabInit.messages
  /\ triggereds = EventsTabInit.triggereds
  /\ timers = EventsTabInit.timers
  /\ processed = 0
  /\ apc = "idle"
  /\ now = 0
  /\ disk = [c \in Ids |-> IF IsSome(files[c]) THEN <<Unwrap(files[c])>> ELSE <<>>]
  /\ path = [c \in Ids |-> IF IsSome(files[c]) THEN 1 ELSE 0]
  /\ writes = 0
  /\ flushes = [c \in Ids |-> IF IsSome(files[c]) THEN << {} >> ELSE <<>>]
  /\ notif = [c \in Ids |-> <<>>]
  /\ watching = [c \in Ids |-> TRUE]
  /\ reader = [c \in Ids |-> Constructed(files[c], 1).reader]
  /\ buffer = [c \in Ids |-> Constructed(files[c], 1).buffer]
  /\ filter = flt
  /\ tsend = [c \in Ids |-> None]
  /\ logs = <<>>
  /\ config = LoadedConfig
  /\ running = TRUE
  /\ actions = <<>>
  /\ dpc = "select"
  /\ dlocal = NoLocal
  /\ ticks = FALSE
  /\ cmds = <<>>
  /\ events = <<>>
  /\ fired = <<>>
  /\ hist = <<>>
  /\ taken = {}
  /\ stopped = FALSE
  /\ self_triggers = LoadedConfig.triggers
  /\ lcall = NoCall
  /\ lhist = [n |-> 0, result |-> "None",
              before |-> [config |-> LoadedConfig, triggers |-> LoadedConfig.triggers],
              mark |-> [c \in Ids |-> 0]]
  /\ senders = TRUE
  /\ errors = 0
  /\ whist = [n |-> 0, result |-> "None", id |-> "None",
              before |-> LogHandlerNew(0, <<>>),
              built |-> [c \in Ids |-> Built(files[c], 1)]]

\* The system started with the filters flt in the handlers and the UI of
\* App::new.
BootFiles(flt, files) == BootApp(flt, files, AppTabs)

\* Every log file exists and is empty when its watcher is constructed.
Boot(flt) == BootFiles(flt, [c \in Ids |-> Some(<<>>)])

\* apply_watcher_filters of init has given every handler the filter of its
\* character.
Init == Boot([c \in Ids |-> TriggersFilter(LoadedConfig.triggers, c)])

Next ==
  \/ \E c \in Ids : WatchersAdd(c)
  \/ WatchersStart
  \/ \E c \in Ids : Remove(c)
  \/ \E c \in Ids : \E line \in TimerLines : Write(c, line, MaxWrites)
  \/ \E c \in Ids : \E chunk \in Chunks(disk[c][path[c]]) : Write(c, chunk, MaxWrites)
  \/ \E c \in Ids : Rotate(c)
  \/ Advance
  \/ \E c \in Ids : HandleEvent(c)
  \/ \E c \in Ids : HandleEventResume(c)
  \/ WatchersStop
  \/ WatchersDrop
  \/ \E opts \in LoadOptions : Load(opts)
  \/ LoadConfig
  \/ LoadTriggers
  \/ ApplyWatcherFilters
  \/ OnLogEvent(JumpPoints)
  \/ OnLogsDisconnected
  \/ OnTick(JumpPoints)
  \/ DriverResume(JumpPoints)
  \/ OnCommand
  \/ DriverDrop
  \/ DriverEvent

Spec == Init /\ [][Next]_vars

\* The timers: one character's log receives lines that fire triggers, time
\* passes, the driver ticks, the consumer polls, the watchers may be stopped.
NextTimers ==
  \/ \E line \in TimerLines : Write("c1", line, MaxTimerLines)
  \/ Advance
  \/ \E c \in Ids : HandleEvent(c)
  \/ WatchersStop
  \/ OnLogEvent(JumpPoints)
  \/ OnTick(JumpPoints)
  \/ DriverResume(JumpPoints)
  \/ DriverEvent

SpecTimers == Init /\ [][NextTimers]_vars

\* The tailers: one character's log receives chunks of lines and is rotated,
\* the handlers frame and filter the lines, the driver fires the triggers and the
\* consumer polls.  No time passes.
NextTail ==
  \/ \E chunk \in Chunks(disk["c1"][path["c1"]]) : Write("c1", chunk, MaxWrites)
  \/ Rotate("c1")
  \/ \E c \in Ids : HandleEvent(c)
  \/ \E c \in Ids : HandleEventResume(c)
  \/ OnLogEvent(NoJump)
  \/ DriverResume(NoJump)
  \/ DriverEvent

SpecTail == Init /\ [][NextTail]_vars

\* The order of delivery: c1's log receives a line that fires T1 again and
\* again, whole or in two pieces, and is rotated.
OrderLines == { <<"[", "t", "]", " ", "a", LF>> }

NextOrder ==
  \/ \E chunk \in ChunksOf(OrderLines, disk["c1"][path["c1"]]) :
        Write("c1", chunk, MaxOrderWrites)
  \/ RotateUpTo("c1", MaxOrderRotations)
  \/ HandleEvent("c1")
  \/ HandleEventResume("c1")
  \/ OnLogEvent(NoJump)
  \/ DriverResume(NoJump)
  \/ DriverEvent

SpecOrder == Init /\ [][NextOrder]_vars

\* The drop of the driver handle: c1's log receives lines that fire
\* triggers, the driver fires them, the owner polls the bus and at some
\* moment drops the handle.
NextDrop ==
  \/ \E line \in TimerLines : Write("c1", line, MaxWrites)
  \/ \E c \in Ids : HandleEvent(c)
  \/ \E c \in Ids : HandleEventResume(c)
  \/ OnLogEvent(NoJump)
  \/ DriverResume(NoJump)
  \/ Poll
  \/ DriverDrop
  \/ OnCommand

SpecDrop == Init /\ [][NextDrop]_vars

\* The disconnection: c1's log receives lines that fire triggers, the
\* driver fires them, the owner polls, and at some moment the watchers are
\* dropped with every sender of the log channel.
NextDisconnect ==
  \/ \E line \in TimerLines : Write("c1", line, MaxWrites)
  \/ \E c \in Ids : HandleEvent(c)
  \/ \E c \in Ids : HandleEventResume(c)
  \/ WatchersDrop
  \/ OnLogEvent(NoJump)
  \/ OnLogsDisconnected
  \/ DriverResume(NoJump)
  \/ DriverEvent

SpecDisconnect == Init /\ [][NextDisconnect]_vars

\* The closed filters: both characters' logs receive whole lines that match
\* triggers.  A handler has either the filter init has pushed, or still the
\* one LogHandler::new gave it (set_filter was never called on it).
InitClosed ==
  \E flt \in [Ids -> {LogHandlerNew(1, <<>>).filter}
                        \cup {TriggersFilter(LoadedConfig.triggers, c) : c \in Ids}] :
    /\ \A c \in Ids : flt[c] \in {LogHandlerNew(1, <<>>).filter,
                                   TriggersFilter(LoadedConfig.triggers, c)}
    /\ Boot(flt)

NextClosed ==
  \/ \E c \in Ids : \E line \in TimerLines : Write(c, line, MaxWrites)
  \/ \E c \in Ids : HandleEvent(c)
  \/ \E c \in Ids : HandleEventResume(c)
  \/ OnLogEvent(NoJump)
  \/ DriverResume(NoJump)
  \/ DriverEvent

SpecClosed == InitClosed /\ [][NextClosed]_vars

\* The hot swap: both characters' logs receive a whole line that fires T1,
\* the orchestrator calls load at runtime, the driver fires the triggers
\* and the consumer polls.  No time passes.
LoadLines == { <<"[", "t", "]", " ", "a", LF>> }

NextLoad ==
  \/ \E c \in Ids : \E line \in LoadLines : Write(c, line, MaxLoadLines)
  \/ \E c \in Ids : HandleEvent(c)
  \/ \E opts \in LoadOptions : Load(opts)
  \/ LoadConfig
  \/ LoadTriggers
  \/ ApplyWatcherFilters
  \/ OnLogEvent(NoJump)
  \/ DriverResume(NoJump)
  \/ DriverEvent

SpecLoad == Init /\ [][NextLoad]_vars

\* The removed character: c1's log receives whole lines that fire T1 while
\* the configuration is loaded again, possibly without c1.
NextRemoved ==
  \/ \E line \in LoadLines : Write("c1", line, MaxLoadLines)
  \/ \E c \in Ids : HandleEvent(c)
  \/ Load("Config")
  \/ LoadConfig
  \/ OnLogEvent(NoJump)
  \/ DriverResume(NoJump)
  \/ DriverEvent

SpecRemoved == Init /\ [][NextRemoved]_vars

\* Loads from a data directory whose trigger file may hold a search_text
\* that does not compile, while lines are appended and handled.
NextCompile ==
  \/ \E line \in LoadLines : Write("c1", line, MaxLoadLines)
  \/ \E c \in Ids : HandleEvent(c)
  \/ \E opts \in LoadOptions : Load(opts)
  \/ LoadConfigOf(CompileConfigFiles, TriggerFiles)
  \/ LoadTriggersOf(TriggerFiles)
  \/ ApplyWatcherFilters
  \/ OnLogEvent(NoJump)

SpecCompile == Init /\ [][NextCompile]_vars

\* Registration at run time: the logs receive whole lines while
\* Watchers::add is called for characters that have a watcher.
NextAdd ==
  \/ \E c \in Ids : \E line \in LoadLines : Write(c, line, MaxLoadLines)
  \/ \E c \in Ids : HandleEvent(c)
  \/ \E c \in Ids : WatchersAdd(c)
  \/ WatchersStart
  \/ OnLogEvent(NoJump)

SpecAdd == Init /\ [][NextAdd]_vars

\* The driver loop: c1's log receives lines that fire triggers while time
\* passes, the owner polls now and then and at some time drops the driver,
\* so that ticks, log events and a command wait for the loop together.
NextLoop ==
  \/ \E line \in TimerLines : Write("c1", line, MaxLoadLines)
  \/ HandleEvent("c1")
  \/ AdvanceUpTo(MaxLoopTime)
  \/ OnLogEvent(NoJump)
  \/ OnTick(NoJump)
  \/ DriverResume(NoJump)
  \/ Poll
  \/ DriverDrop
  \/ OnCommand

SpecLoop == Init /\ [][NextLoop]_vars

\* The bus: c1's log receives lines that fire triggers, and the owner polls
\* the bus now and then.
NextBus ==
  \/ \E line \in TimerLines : Write("c1", line, MaxWrites)
  \/ HandleEvent("c1")
  \/ OnLogEvent(NoJump)
  \/ DriverResume(NoJump)
  \/ DriverEvent

SpecBus == Init /\ [][NextBus]_vars

\* A line that fires T1 and T2.
SnapshotLines == { <<"[", "t", "]", " ", "a", "b", CR, LF>> }

\* One snapshot per log event: the logs receive lines that fire two
\* triggers while the configuration is loaded again and the owner polls
\* the bus now and then, so that a load may fall into the handling of a
\* log event.
NextSnapshot ==
  \/ \E c \in Ids : \E line \in SnapshotLines : Write(c, line, MaxLoadLines)
  \/ \E c \in Ids : HandleEvent(c)
  \/ Load("Config")
  \/ LoadConfig
  \/ OnLogEvent(NoJump)
  \/ DriverResume(NoJump)
  \/ Poll

SpecSnapshot == Init /\ [][NextSnapshot]_vars

\* A line the log file holds when its watcher is constructed; it matches T1.
OldLines == <<"[", "t", "]", " ", "a", LF>>

\* Construction: the log file of c1 is absent, or holds a line, when its
\* watcher is constructed; afterwards the file is created, written, removed
\* and rotated.
InitBuilt ==
  \E file \in {None, Some(OldLines)} :
    BootFiles([c \in Ids |-> TriggersFilter(LoadedConfig.triggers, c)],
              [c \in Ids |-> IF c = "c1" THEN file ELSE Some(<<>>)])

NextBuilt ==
  \/ \E line \in LoadLines : Write("c1", line, MaxLoadLines)
  \/ RotateUpTo("c1", MaxOrderRotations)
  \/ Remove("c1")
  \/ HandleEvent("c1")
  \/ OnLogEvent(NoJump)

SpecBuilt == InitBuilt /\ [][NextBuilt]_vars

\* The notifications a handler ignores: c1's log receives lines, is removed
\* and created again, while the notifier also passes Access events, events
\* of other kinds and errors.
NextNoise ==
  \/ \E line \in LoadLines : Write("c1", line, MaxLoadLines)
  \/ RotateUpTo("c1", MaxRotations)
  \/ Remove("c1")
  \/ \E kind \in NoiseKinds : Noise("c1", kind)
  \/ HandleEvent("c1")
  \/ OnLogEvent(NoJump)

SpecNoise == Init /\ [][NextNoise]_vars

\* Lines of the wire format that fire T1: one with a well-formed timestamp
\* and one whose timestamp does not parse.
DateLines ==
  { <<"[", "t", "]", " ", "a", LF>>,
    <<"[", "u", "]", " ", "a", LF>> }

\* The timestamps: c1's log receives such lines while time passes, and the
\* driver takes the log events.
NextDates ==
  \/ \E line \in DateLines : Write("c1", line, MaxWrites)
  \/ HandleEvent("c1")
  \/ AdvanceUpTo(MaxLoopTime)
  \/ OnLogEvent(NoJump)

SpecDates == Init /\ [][NextDates]_vars

\* Two lines the game appends with one write; both fire T1.
BurstLines ==
  { <<"[", "t", "]", " ", "a", LF, "[", "t", "]", " ", "a", LF>> }

\* What the main thread does, one call at a time: it polls the bus, calls
\* load(Triggers) or drops the driver handle; inside load or drop it does
\* nothing else.
MainPoll == lcall.pc = "idle" /\ Poll
MainLoad == cmds = <<>> /\ Load("Triggers")
MainDrop == lcall.pc = "idle" /\ DriverDrop

\* The three threads: the notifier thread runs the callbacks of c1's log,
\* which receives bursts of lines; the driver thread takes log events and
\* ticks; the main thread polls, loads and drops.
NextThreads ==
  \/ \E chunk \in BurstLines : Write("c1", chunk, MaxWrites)
  \/ HandleEvent("c1")
  \/ HandleEventResume("c1")
  \/ AdvanceUpTo(MaxLoopTime)
  \/ OnLogEvent(NoJump)
  \/ OnTick(NoJump)
  \/ DriverResume(NoJump)
  \/ OnCommand
  \/ MainPoll
  \/ MainLoad
  \/ LoadTriggers
  \/ ApplyWatcherFilters
  \/ MainDrop

SpecThreads == Init /\ [][NextThreads]_vars

\* The actions running out: lines that fire triggers are written to c1's
\* log and taken by the driver at the start; no line arrives afterwards.
\* Then time passes, the driver ticks, the clock possibly stepping within a
\* tick, and the consumer polls.
WriteAtStart == now = 0 /\ \E line \in TimerLines : Write("c1", line, MaxTimerLines)
AdvanceLive ==
  /\ notif["c1"] = <<>>
  /\ logs = <<>>
  /\ dpc # "log"
  /\ Advance
DriverResumeLive ==
  \/ dpc = "log" /\ DriverResume(NoJump)
  \/ dpc = "tick" /\ DriverResume(JumpPoints)

NextLive ==
  \/ WriteAtStart
  \/ HandleEvent("c1")
  \/ AdvanceLive
  \/ OnLogEvent(NoJump)
  \/ OnTick(JumpPoints)
  \/ DriverResumeLive
  \/ DriverEvent

\* When the steps of the threads can be taken, and what tells that one
\* was taken: the callback of c1 takes a notification, the driver's select
\* takes a log event or a tick (the tick is consumed, or the clock steps
\* within the handler), a handler waiting in send goes on.
CallbackReady == notif["c1"] # <<>> /\ ~IsSome(tsend["c1"])
CallbackRun == Len(notif'["c1"]) < Len(notif["c1"])
LogEventReady == AtSelect /\ running /\ logs # <<>>
LogEventTaken == Len(logs') < Len(logs)
TickReady == AtSelect /\ running /\ ticks
TickTaken ==
  /\ TickReady
  /\ \/ ~ticks'
     \/ now' > now /\ (dpc' = "tick" \/ hist' # hist \/ actions' # actions)
SendReady == dpc \in {"log", "tick"} /\ ~SendBlocks(events)
SendDone == dpc \in {"log", "tick"} /\ hist' # hist

\* The driver thread and the notifier thread run, the tick source fires
\* every period and the consumer keeps polling: weak fairness of the
\* callback, of the clock, of the select's log and tick arms, of a waiting
\* send and of the consumer's poll.  For the steps that run a handler the
\* condition WF is written out as "infinitely often not ready or
\* infinitely often taken".
SpecLive ==
  /\ Init
  /\ [][NextLive]_vars
  /\ WF_vars(AdvanceLive)
  /\ WF_vars(DriverEvent)
  /\ ([]<>(~CallbackReady) \/ []<><<CallbackRun>>_vars)
  /\ ([]<>(~LogEventReady) \/ []<><<LogEventTaken>>_vars)
  /\ ([]<>(~TickReady) \/ []<><<TickTaken>>_vars)
  /\ ([]<>(~SendReady) \/ []<><<SendDone>>_vars)

\* The UI over the running engine: lines that fire triggers are written at
\* the start, time passes and the driver emits, while App::run calls
\* on_tick, whose loop polls the bus.
NextApp ==
  \/ WriteAtStart
  \/ HandleEvent("c1")
  \/ AdvanceLive
  \/ OnLogEvent(NoJump)
  \/ OnTick(NoJump)
  \/ DriverResume(NoJump)
  \/ AppOnTick
  \/ AppPoll

SpecApp == Init /\ [][NextApp]_vars

\* The events tab by itself: any sequence of events.
NextEventsTab == \E event \in TabEvents : TabEvent(event)

SpecEventsTab == Init /\ [][NextEventsTab]_vars

\* The tab set: Tabs::new with one to MaxTabs tabs, then the keys that move
\* to the next and the previous tab, while the events tab is given events.
InitTabs ==
  \E len \in 1..MaxTabs :
    BootApp([c \in Ids |-> TriggersFilter(LoadedConfig.triggers, c)],
            [c \in Ids |-> Some(<<>>)], len)

NextTabs ==
  \/ \E key \in Keys : AppOnEvent(key)
  \/ \E event \in TabEvents : TabEvent(event)

SpecTabs == InitTabs /\ [][NextTabs]_vars

\* The LogManager: its owner adds and removes paths while the log file of
\* c1 is written, removed and made again.
NextManager ==
  \/ \E chunk \in LoadLines : Write("c1", chunk, MaxLoadLines)
  \/ RotateUpTo("c1", MaxRotations)
  \/ Remove("c1")
  \/ \E p \in ManagerPaths : ManagerAdd(p)
  \/ \E p \in ManagerPaths : ManagerRemove(p)

SpecManager == Init /\ [][NextManager]_vars

\* set_filter against the callbacks: c1's log receives whole lines that its
\* filter admits, enough of them to fill the log channel, while load
\* installs the filters of a configuration read again and the driver takes
\* log events as long as the bus has room for what they fire.
NextFilter ==
  \/ \E line \in LoadLines : Write("c1", line, MaxWrites)
  \/ HandleEvent("c1")
  \/ HandleEventResume("c1")
  \/ Load("All")
  \/ LoadConfig
  \/ LoadTriggers
  \/ ApplyWatcherFilters
  \/ OnLogEvent(NoJump)

SpecFilter == Init /\ [][NextFilter]_vars

----------------------------------------------------------------------------
(* Properties.                                                             *)

\* The driver thread waits in sender.send(event): its handler has not
\* returned to the select and holds the event it could not queue.
BlockedInSend == dpc \in {"log", "tick"} /\ IsSome(dlocal.send)

\* C1: with the event bus full, emitting another event never blocks the
\* driver thread: the event is dropped and the driver goes on to the next
\* tick, log event or command.
C1_FullBusNeverBlocksDriver == ~BlockedInSend

\* Some action has put an event on the bus between the histories h1 and h2.
Puts(h1, h2) ==
  \E u \in DOMAIN h2 : h2[u].n > (IF u \in DOMAIN h1 THEN h1[u].n ELSE 0)

\* C2: after stop() has returned no further event is put on the event bus,
\* whatever the log channel and the active actions held when it was called.
C2_NoEventAfterStop == [][stopped => ~Puts(hist, hist')]_vars

\* The log events the driver has handled to the end: received, and
\* on_log_event has returned.
Handled == {ev \in taken : dlocal.ev # Some(ev)}

\* The compiled triggers of the snapshot whose regex matches the message of
\* a log event, and the Triggered events on the bus that carry the event.
Matching(ev) ==
  LET compiled == CompiledValues(config.triggers)
  IN {i \in 1..Len(compiled) : IsSome(Captures(compiled[i].regex, ev.message))}

TriggeredFor(ev) == {j \in 1..Len(fired) : fired[j][1] = ev.arc}

TriggeredBy(ev, trigger) ==
  {j \in TriggeredFor(ev) : fired[j][2] = trigger.character
                             /\ fired[j][3] = trigger.trigger}

LiveActions ==
  {actions[i] : i \in 1..Len(actions)}
    \cup {dlocal.todo[i] : i \in 1..Len(dlocal.todo)}

Live(u) == \E a \in LiveActions : a.uid = u

\* The uids of the actions made from the DisplayText templates of the
\* triggers that match a log event.
DisplayTextOf(ev) ==
  LET compiled == CompiledValues(config.triggers)
  IN UNION { { <<ev.arc, compiled[i].character, compiled[i].trigger, k>> :
                 k \in {k \in 1..Len(compiled[i].actions) :
                          compiled[i].actions[k].type = "DisplayText"} } :
             i \in Matching(ev) }

\* C4: for every matching line each DisplayText template of a trigger that
\* matched it gives one action, which emits at most one event and has
\* emitted exactly one when the driver lets go of it; no other DisplayText
\* action exists, so the events are as many as the templates.
C4_OneDisplayTextPerTemplate ==
  /\ \A ev \in Handled : \A u \in DisplayTextOf(ev) :
        /\ u \in DOMAIN hist
        /\ hist[u].kind = "DisplayText"
        /\ ~Live(u) => hist[u].n = 1
  /\ \A u \in DOMAIN hist :
        hist[u].kind = "DisplayText" =>
          /\ hist[u].n <= 1
          /\ \E ev \in taken : u \in DisplayTextOf(ev)

\* A line whose trigger has an immediate and a delayed DisplayText
\* template: both actions have emitted their event and are gone.
C4_BothDisplayTextsEmitted ==
  \E ev \in Handled :
    /\ Cardinality(DisplayTextOf(ev)) = 2
    /\ \A u \in DisplayTextOf(ev) : ~Live(u) /\ hist[u].n = 1
    /\ \E u \in DisplayTextOf(ev) : IsSome(hist[u].due)

\* The histories of the countdown actions, and the duration D of the
\* template an action was made from.
Countdowns == {u \in DOMAIN hist : hist[u].kind = "Countdown"}

DurationOf(u) == LocalTriggers[u[3]].actions[u[4]].duration

\* C5: of the events of one Countdown action exactly one has remaining 0,
\* it is the last one, the earlier ones have remaining > 0 and none follows.
C5_OneFinalZero ==
  \A u \in Countdowns :
    /\ hist[u].zeros <= 1
    /\ hist[u].after = 0
    /\ ~Live(u) => hist[u].zeros = 1

\* C6: the remaining values of the events of one Countdown action never
\* rise from one event to the next, are never negative and never exceed
\* the duration D, the first one after a delay included.
C6_RemainingMonotoneWithinDuration ==
  \A u \in Countdowns :
    /\ hist[u].rises = 0
    /\ hist[u].peak <= DurationOf(u)
    /\ IsSome(hist[u].last) => Unwrap(hist[u].last) >= 0

\* A delayed countdown that started at its full duration and ran to zero.
C6_DelayedCountdownRanDown ==
  \E u \in Countdowns :
    /\ IsSome(hist[u].due)
    /\ hist[u].peak = DurationOf(u)
    /\ hist[u].n >= 3
    /\ hist[u].last = Some(0)

\* The actions the driver holds whose delay has not been found reached.
Pending == {a.uid : a \in {b \in LiveActions : IsSome(b.delay_until)}}

\* The action whose event the driver is waiting to queue.
InSend(u) == BlockedInSend /\ CurrentAction(DriverState(dpc, dlocal.ev, dlocal.trigs, dlocal.idx)).uid = u

\* C7: an action emits nothing while its delay_until is ahead; a pass that
\* finds delay_until reached clears it and emits, so that no pass leaves an
\* action behind whose delay_until is reached; once cleared, delay_until is
\* never set again.
C7_DelayedActionArmedOnce ==
  /\ [](\A u \in Pending : hist[u].n = 0 /\ ~InSend(u))
  /\ [](\A u \in DOMAIN hist :
         (IsSome(hist[u].due) /\ hist[u].n >= 1) =>
           Unwrap(hist[u].first) >= Unwrap(hist[u].due))
  /\ [](\A a \in LiveActions :
         (IsSome(hist[a.uid].due) /\ ~IsSome(a.delay_until)) =>
           hist[a.uid].n >= 1 \/ InSend(a.uid))
  /\ []((dpc = "select" /\ ~ticks) =>
         \A a \in LiveActions :
           IsSome(a.delay_until) => Unwrap(a.delay_until) > now)
  /\ [][Pending' \subseteq Pending \cup (DOMAIN hist' \ DOMAIN hist)]_vars

\* A delayed action that has waited through a tick and then emitted.
C7_DelayedActionEmitted ==
  \E u \in DOMAIN hist :
    /\ IsSome(hist[u].due)
    /\ hist[u].n >= 1
    /\ u \notin Pending
    /\ now >= Unwrap(hist[u].due)

\* The text of file ino of character c that its reader has consumed.
Consumed(c) ==
  LET r == Unwrap(reader[c])
  IN SubSeq(disk[c][r.ino], 1, r.pos)

\* The offsets at which the lines of a text start.
RECURSIVE LineStarts(_, _)
LineStarts(content, pos) ==
  IF pos >= Len(content) THEN <<>>
  ELSE <<pos>> \o LineStarts(content, pos + Len(ReadLine(content, pos)))

\* The start of the line of a text that holds the character after offset pos.
LineStartOf(content, pos) ==
  LET starts == LineStarts(content, 0)
  IN starts[CHOOSE i \in 1..Len(starts) :
              /\ starts[i] <= pos
              /\ \A j \in 1..Len(starts) : starts[j] <= pos => starts[j] <= starts[i]]

\* Every log event a tailer has sent or is sending.
Sent ==
  taken \cup {logs[i] : i \in 1..Len(logs)}
        \cup {Unwrap(tsend[c]) : c \in {d \in Ids : IsSome(tsend[d])}}

\* The line of the file as written that a log event was read from.
WrittenLine(ev) ==
  LET content == disk[ev.arc[1]][ev.arc[2]]
  IN ReadLine(content, LineStartOf(content, ev.arc[3]))

\* C8: the beginning of a line that a Modify notification finds without
\* its newline stays in the tailer's buffer, and the Modify that brings the
\* rest yields one complete line, the whole line as written.
C8_PartialLineKept ==
  /\ \A c \in Ids :
        (IsSome(reader[c]) /\ ~IsSome(tsend[c])) =>
          buffer[c] = OpenEnd(Consumed(c))
  /\ \A ev \in Sent :
        /\ IsSome(parse_raw_line(WrittenLine(ev)))
        /\ Unwrap(parse_raw_line(WrittenLine(ev)))[2] = ev.message

\* C10: a line that is not of the wire format is never sent on the log
\* channel and never gives an event.
C10_OnlyWireFormatLinesSent ==
  /\ \A ev \in Sent : IsSome(parse_raw_line(WrittenLine(ev)))
  /\ \A j \in 1..Len(fired) :
        LET content == disk[fired[j][1][1]][fired[j][1][2]]
        IN IsSome(parse_raw_line(
             ReadLine(content, LineStartOf(content, fired[j][1][3]))))

\* The Triggered events a line of file ino of character c gives when it is
\* delivered: one per compiled trigger that matches its message, in the
\* order of the compiled triggers; none when the line is not of the wire
\* format or the filter of c rejects it.
TriggeredOfLine(c, ino, pos) ==
  LET parsed == parse_raw_line(ReadLine(disk[c][ino], pos))
      compiled == CompiledValues(config.triggers)
      hit == {i \in 1..Len(compiled) :
                /\ IsSome(parsed)
                /\ FilterAdmits(filter[c], Unwrap(parsed)[2])
                /\ IsSome(Captures(compiled[i].regex, Unwrap(parsed)[2]))}
  IN SelectIndices([i \in 1..Len(compiled) |->
                      <<<<c, ino, pos>>, compiled[i].character,
                        compiled[i].trigger, 0>>], hit)

\* The Triggered events of all lines written for character c, in write
\* order: file after file, line after line.
TriggeredInWriteOrder(c) ==
  Concat([ino \in 1..Len(disk[c]) |->
            LET starts == LineStarts(disk[c][ino], 0)
            IN Concat([i \in 1..Len(starts) |->
                         TriggeredOfLine(c, ino, starts[i])])])

\* Every append to the files of c ended at the end of a line.
WholeLinesWritten(c) ==
  \A ino \in 1..Len(disk[c]) : \A n \in flushes[c][ino] : disk[c][ino][n] = LF

\* Nothing written for c is still on its way: its notifications are
\* handled, the log channel is empty and the driver is back at its select.
Settled(c) ==
  /\ notif[c] = <<>>
  /\ ~IsSome(tsend[c])
  /\ logs = <<>>
  /\ dpc = "select"

\* C9: handling a Create notification leaves the reader at offset 0 of the
\* file now at the path, not at its end; hence when whole lines are written,
\* the file is rotated once and more lines are written, every matching line
\* gives its Triggered event, and these are put on the bus in write order.
C9_ReopenedAtStartKeepsWriteOrder ==
  /\ [][\A c \in Ids :
          (notif[c] # <<>> /\ Head(notif[c]) = "Create" /\ notif'[c] = Tail(notif[c]))
            => reader'[c] = Some([ino |-> path[c], pos |-> 0])]_vars
  /\ [](\A c \in Ids :
          (Settled(c) /\ WholeLinesWritten(c) /\ Len(disk[c]) <= 2) =>
            SelectIndices(fired, {j \in 1..Len(fired) : fired[j][1][1] = c})
              = TriggeredInWriteOrder(c))

\* Two matching lines were written, the file was rotated and a third
\* matching line was written; the three Triggered events are out in order.
C9_ThreeLinesAcrossRotation ==
  /\ Settled("c1") /\ WholeLinesWritten("c1")
  /\ Len(disk["c1"]) = 2
  /\ Len(fired) = 3
  /\ fired[1][1] = <<"c1", 1, 0>>
  /\ fired[2][1][2] = 1 /\ fired[2][1][3] > 0
  /\ fired[3][1] = <<"c1", 2, 0>>

\* A handler that rejects every line by default: its filter is still the one
\* of LogHandler::new, or its character has no enabled trigger.
DefaultClosed(c) ==
  \/ filter[c] = LogHandlerNew(1, <<>>).filter
  \/ EnabledIds(config.characters, c) = <<>>

Loaded == lcall.pc = "idle" /\ lhist.result = "Ok"

\* C12: once load has returned, every tailer tests its lines with the
\* per-character filter of the new snapshot and the driver matches with the
\* new trigger set: no handler holds a filter of an older snapshot.
C12_FiltersOfNewSnapshot ==
  Loaded => \A c \in Ids : filter[c] = TriggersFilter(config.triggers, c)

\* No load call is in progress and the last one, if any, returned Ok: the
\* configuration is the one of the start or of that load.
Stable == lcall.pc = "idle" /\ lhist.result # "Err"

\* The offsets of the lines of c's log written since the last load returned
\* (since the start, when there was none).
LinesSince(c) ==
  LET starts == LineStarts(disk[c][path[c]], 0)
  IN {starts[i] : i \in 1..Len(starts)} \ (0..(lhist.mark[c] - 1))

\* The reader of c has read everything written.
ReadAll(c) ==
  IsSome(reader[c]) /\ Unwrap(reader[c]).pos = Len(disk[c][Unwrap(reader[c]).ino])

\* Whether character c of the snapshot has disabled the local trigger id.
Disabled(c, id) ==
  TriggerRef("local", id) \in config.characters[c].disabled_triggers

\* A Triggered event was put on the bus for the line of c at offset pos.
ProducedEvents(c, pos) ==
  \E j \in 1..Len(fired) : fired[j][1] = <<c, path[c], pos>>

\* C13: a line that matches only trigger T1 (every line of LoadLines)
\* produces no event while its character has T1 disabled, and produces
\* events once a load has returned in which T1 is no longer disabled.
C13_DisabledUntilLoaded ==
  \A c \in Ids \cap DOMAIN config.characters :
    (Stable /\ Settled(c) /\ ReadAll(c)) =>
      \A pos \in LinesSince(c) :
        /\ Disabled(c, "T1") => ~ProducedEvents(c, pos)
        /\ (lhist.n > 0 /\ ~Disabled(c, "T1")) => ProducedEvents(c, pos)

\* C14: a log event is matched only against the triggers compiled for its
\* character: every Triggered event put on the bus carries the character
\* whose id is the id of the LogEvent it reports.
C14_TriggeredCarriesLogCharacter ==
  \A j \in 1..Len(fired) : fired[j][2] = fired[j][1][1]

\* C15: when the driver handles a log event whose character id is not in
\* the snapshot of that moment, it puts no event on the bus, adds nothing
\* to its active actions and is back at its select.
C15_UnknownCharacterDropped ==
  [][(/\ dpc = "select"
      /\ logs # <<>>
      /\ logs' = Tail(logs)
      /\ Head(logs).id \notin DOMAIN config.characters)
       => /\ events' = events
          /\ actions' = actions
          /\ fired' = fired
          /\ hist' = hist
          /\ dpc' = "select"]_vars

\* The driver has handled a log event of a character that a load removed
\* after the line was read, and nothing was fired for it.
C15_RemovedCharacterEventHandled ==
  \E ev \in Handled :
    /\ ev.id \notin DOMAIN config.characters
    /\ TriggeredFor(ev) = {}
    /\ lhist.n > 0

\* The place of the first Triggered event put on the bus for the log event
\* arc, 0 when there is none.
FirstTriggered(arc) ==
  IF \E k \in 1..Len(fired) : fired[k][1] = arc
    THEN CHOOSE k \in 1..Len(fired) :
           /\ fired[k][1] = arc
           /\ \A m \in 1..(k - 1) : fired[m][1] # arc
    ELSE 0

\* C16: of two admitted lines of one file the earlier one is delivered
\* first: the Triggered event of the line at the smaller offset is put on
\* the bus before the Triggered event of the line at the larger offset.
C16_TriggeredInFileOrder ==
  \A i, j \in 1..Len(fired) :
    (/\ fired[i][1][1] = fired[j][1][1]
     /\ fired[i][1][2] = fired[j][1][2]
     /\ fired[i][1][3] < fired[j][1][3])
      => FirstTriggered(fired[i][1]) < FirstTriggered(fired[j][1])

\* The handler of c waits in send on the full log channel.
TailerBlocked(c) == IsSome(tsend[c]) /\ Len(logs) >= LogChannelCapacity

\* The offsets of the lines of c's file that its filter admits.
AdmittedLines(c) ==
  LET content == disk[c][path[c]]
      starts == LineStarts(content, 0)
  IN {starts[i] : i \in {k \in 1..Len(starts) :
        IsSome(LineEvent(c, ReadLine(content, starts[k]), filter[c], <<>>, 0))}}

\* C17: while the log channel is full a tailer with an admitted line waits
\* in send, and goes on only by queueing that event behind those already in
\* the channel; the channel never holds more than its capacity, loses
\* events only to the driver, oldest first, and keeps their order; and
\* every admitted line of a file written in whole lines has reached the
\* driver once the tailer has read the file and the channel is empty.
C17_BlockingSendDeliversAll ==
  /\ [](Len(logs) <= LogChannelCapacity)
  /\ [][\A c \in Ids :
          /\ TailerBlocked(c) =>
                (tsend'[c] = tsend[c] /\ reader'[c] = reader[c] /\ buffer'[c] = buffer[c])
          /\ (IsSome(tsend[c]) /\ tsend'[c] # tsend[c]) =>
                /\ Len(logs') > Len(logs)
                /\ SubSeq(logs', 1, Len(logs) + 1) = Append(logs, Unwrap(tsend[c]))]_vars
  /\ [][\/ logs' = logs
        \/ logs # <<>> /\ logs' = Tail(logs) /\ taken' = taken \cup {Head(logs)}
        \/ Len(logs') > Len(logs) /\ SubSeq(logs', 1, Len(logs)) = logs]_vars
  /\ [](\A c \in Ids :
          (Settled(c) /\ ReadAll(c) /\ WholeLinesWritten(c) /\ Len(disk[c]) = 1) =>
            {ev.arc[3] : ev \in {e \in taken : e.id = c}} = AdmittedLines(c))

\* The tailer of c1 waits in send with the log channel full, behind two
\* events of its earlier lines.
C17_TailerWaitsOnFullChannel ==
  /\ TailerBlocked("c1")
  /\ \A i \in 1..Len(logs) : logs[i].arc[3] < Unwrap(tsend["c1"]).arc[3]

\* C18: dropping the driver handle completes in every state of the bus and
\* of the log channel: while drop waits to hand Stop over, the driver thread
\* is at its select or in a handler that can go on to it, so that it
\* receives Stop and ends.
C18_DropCompletes ==
  cmds # <<>> => (dpc = "select" \/ ~SendBlocks(events))

\* C19: when the log channel is disconnected the driver logs the error and
\* stops running: once an error is logged the loop has ended, and no second
\* error is logged by selecting on the disconnected channel again.
C19_StopsOnDisconnect ==
  errors > 0 => (~running /\ dpc = "done" /\ errors = 1)

\* C20: a load call that has failed leaves the orchestrator's configuration
\* and trigger set as they were before the call, whatever its option and
\* whichever step failed.
C20_FailedLoadChangesNothing ==
  (lcall.pc = "idle" /\ lhist.result = "Err") =>
    /\ config = lhist.before.config
    /\ self_triggers = lhist.before.triggers

\* Every enabled trigger of the file compiles for these characters.
AllEnabledCompile(triggers, characters) ==
  \A c \in DOMAIN characters :
    \A i \in 1..Len(EnabledIds(characters, c)) :
      IsSome(RegexNew(triggers[EnabledIds(characters, c)[i]].search_text))

\* The Triggers values of the loads every enabled trigger of which compiles.
CompleteLoads ==
  {TriggersLoad(triggers, characters) :
     <<triggers, characters>> \in
       {tc \in TriggerFiles \X CompileConfigFiles :
          AllEnabledCompile(tc[1], tc[2])}}

\* C21: a load that meets an enabled trigger whose search_text does not
\* compile returns an error and publishes nothing.  The configuration
\* snapshot, the orchestrator's triggers and every tailer's filter are always
\* those of a load all of whose enabled triggers compiled, never the maps a
\* failing load had filled before the failing trigger; and the step in which
\* a load returns InvalidRegex changes none of them.
C21_FailedCompilePublishesNothing ==
  /\ [](/\ config.triggers \in CompleteLoads
        /\ self_triggers \in CompleteLoads
        /\ \A c \in Ids :
             filter[c] \in {TriggersFilter(t, c) : t \in CompleteLoads})
  /\ [][(lhist.result # "InvalidRegex" /\ lhist'.result = "InvalidRegex")
         => /\ config' = config
            /\ self_triggers' = self_triggers
            /\ filter' = filter]_vars

\* A load returned InvalidRegex, and every failing load of the directory
\* had compiled a trigger before the failing one.
C21_InvalidRegexReturned ==
  /\ lcall.pc = "idle"
  /\ lhist.result = "InvalidRegex"
  /\ \A triggers \in TriggerFiles, characters \in CompileConfigFiles :
       ~TriggersTryLoad(triggers, characters).ok
         => CompileFrom(triggers, characters, LoadPairs(characters),
                        NoTriggers).maps # NoTriggers

\* C22: registering a watch for a file that is already watched fails with
\* AlreadyWatching and leaves the existing tailer of that file, with its
\* handle and read position, unchanged: every step that is a registration
\* for a character that has a watcher, the new watcher having been
\* constructed, returns AlreadyWatching and changes neither the reader nor
\* the buffer nor the filter of a handler.
C22_DuplicateWatchRejected ==
  [][(whist'.n # whist.n /\ whist'.result # "Err")
       => /\ whist'.result = "AlreadyWatching"
          /\ reader' = reader
          /\ buffer' = buffer
          /\ filter' = filter]_vars

\* Watcher c handles the oldest of its notifications, which is of this kind.
Handles(c, kind) ==
  /\ notif[c] # <<>>
  /\ Head(notif[c]) = kind
  /\ notif'[c] = Tail(notif[c])

\* C23: a tailer constructed on an existing file starts at its end, so the
\* lines in the file at construction never produce events; a tailer
\* constructed on an absent file holds no handle, ignores Modify
\* notifications, and opens the file on the next Create notification, and
\* stays without a handle when that open fails.  No log event is read from
\* below the length the file had at construction; a handler constructed on
\* an absent file starts without reader; a Modify handled without reader
\* changes nothing; a reader appears only by a handled Create, which leaves
\* a reader at offset 0 of the file at the path, or none when there is no
\* file.
C23_StartsAtEndOrWithoutHandle ==
  /\ \A c \in Ids : ~whist.built[c].exists => ~IsSome(reader[c])
  /\ [](\A c \in Ids : \A ev \in Sent :
          (whist.built[c].exists /\ ev.arc[1] = c
             /\ ev.arc[2] = whist.built[c].ino)
            => ev.arc[3] >= whist.built[c].len)
  /\ [][\A c \in Ids :
          /\ (Handles(c, "Modify") /\ ~IsSome(reader[c]))
               => UNCHANGED <<reader, buffer, tsend, logs>>
          /\ (~IsSome(reader[c]) /\ IsSome(reader'[c])) => Handles(c, "Create")
          /\ Handles(c, "Create")
               => reader'[c] = IF path[c] # 0
                                 THEN Some([ino |-> path[c], pos |-> 0])
                                 ELSE None]_vars

\* The file of c1 was absent at construction; it was created, written and
\* removed before its Create was handled, so that the open failed and the
\* Modify found no reader: nothing was read from the first file, and the
\* second file was opened by its Create and read from its start.
C23_AbsentThenCreated ==
  /\ ~whist.built["c1"].exists
  /\ notif["c1"] = <<>>
  /\ Len(disk["c1"]) = 2
  /\ disk["c1"][1] # <<>>
  /\ \A ev \in Sent : ev.arc[2] # 1
  /\ \E ev \in Sent : ev.arc = <<"c1", 2, 0>>

\* s is the end of t.
IsSuffix(s, t) ==
  /\ Len(s) <= Len(t)
  /\ s = SubSeq(t, Len(t) - Len(s) + 1, Len(t))

\* The snapshots the configuration cell may hold.
Snapshots == {ConfigFromConfigDir(characters) : characters \in ConfigFiles}

\* The (character, trigger) pairs of the Triggered events a log event gives
\* when handled under the snapshot cfg, in order.
Outcome(cfg, ev) ==
  LET trigs == TriggersFor(cfg, ev)
      hits == SelectIndices(trigs,
                {i \in 1..Len(trigs) : IsSome(Captures(trigs[i].regex, ev.message))})
  IN [i \in 1..Len(hits) |-> <<hits[i].character, hits[i].trigger>>]

\* The (character, trigger) pairs of the Triggered events put on the bus for
\* a log event, in order.
FiredFor(ev) ==
  LET mine == SelectIndices(fired, {j \in 1..Len(fired) : fired[j][1] = ev.arc})
  IN [i \in 1..Len(mine) |-> <<mine[i][2], mine[i][3]>>]

\* C24: the configuration cell is replaced as a whole and the driver loads
\* it once per log event, so that all triggers tried for one log event and
\* the character lookup for it come from the same snapshot, also when a load
\* runs while the event is handled.  The triggers a handler starts with are
\* those of the snapshot in the cell when it takes the event; while it
\* handles the event the triggers left only shrink, whatever is loaded; and
\* the Triggered events of a handled event are those of one snapshot.
C24_OneSnapshotPerLogEvent ==
  /\ [](config \in Snapshots)
  /\ [](\A ev \in Handled : \E cfg \in Snapshots : FiredFor(ev) = Outcome(cfg, ev))
  /\ [][/\ ((taken' # taken /\ IsSome(dlocal'.ev))
              => IsSuffix(dlocal'.trigs, TriggersFor(config, Unwrap(dlocal'.ev))))
         /\ ((IsSome(dlocal.ev) /\ dlocal'.ev = dlocal.ev)
              => IsSuffix(dlocal'.trigs, dlocal.trigs))]_vars

\* A handler waits in send with triggers left that are not triggers of the
\* snapshot now in the cell: the configuration was replaced while it
\* handles its log event.
C24_LoadedWhileHandling ==
  /\ dpc = "log"
  /\ IsSome(dlocal.ev)
  /\ dlocal.trigs # <<>>
  /\ ~IsSuffix(dlocal.trigs, TriggersFor(config, Unwrap(dlocal.ev)))

\* s is the beginning of t.
IsPrefix(s, t) ==
  /\ Len(s) <= Len(t)
  /\ s = SubSeq(t, 1, Len(s))

\* C25: event() never blocks: it returns the oldest event still on the bus,
\* in the order the driver emitted them, and none when the bus is empty;
\* and the bus never holds more events than its capacity.  In every state
\* event() has a result, the oldest event of the bus or none for the empty
\* bus; and every step leaves the bus, takes its oldest event or appends to
\* its end.
C25_EventTakesOldest ==
  /\ [](/\ Len(events) <= EventBusCapacity
        /\ TryRecv(events).out = IF events = <<>> THEN None ELSE Some(events[1])
        /\ (events = <<>> => TryRecv(events).bus = events))
  /\ [][\/ (events # <<>> /\ events' = Tail(events))
         \/ IsPrefix(events, events')]_vars

\* The Triggered event of the only firing so far has been returned, and the
\* event emitted after it is now the oldest of the bus.
C25_TriggeredTakenFirst ==
  /\ Len(fired) = 1
  /\ dpc = "select"
  /\ events # <<>>
  /\ events[1].kind = "DisplayText"

\* The (character_id, trigger_ref, log.message, log.date) of the j-th
\* Triggered event put on the bus.
Quadruple(j) ==
  LET log == CHOOSE ev \in taken : ev.arc = fired[j][1]
  IN <<fired[j][2], TriggerRef("local", fired[j][3]), log.message, log.date>>

\* C26: every emitted Triggered event has a (character_id, trigger_ref,
\* log.message, log.date) quadruple that no other Triggered event of the run
\* has, whatever lines are appended.
C26_TriggeredQuadrupleUnique ==
  \A i, j \in 1..Len(fired) : i # j => Quadruple(i) # Quadruple(j)

\* The uid of the Triggered action of the firing an action belongs to.
TriggeredOf(u) == <<u[1], u[2], u[3], 0>>

\* C27: when a trigger fires on a log event, the actions it produces are, in
\* order, one Triggered action with no delay and one action per template in
\* template order; so the Triggered event of a firing is put on the bus
\* before any DisplayText or Countdown event of the same firing.  For every
\* log event received and every compiled trigger that matches it, execute
\* gives that list; and an action made for a template has emitted only if
\* the Triggered action of its firing has emitted its one event.
C27_TriggeredFirst ==
  /\ \A ev \in taken :
       \A i \in Matching(ev) :
         LET trigger == CompiledValues(config.triggers)[i]
             made == Unwrap(CompiledTriggerExecute(trigger, ev, now, 0, 0).actions)
         IN /\ Len(made) = 1 + Len(trigger.actions)
            /\ made[1].kind = "Triggered"
            /\ ~IsSome(made[1].delay_until)
            /\ \A k \in 1..Len(trigger.actions) :
                 /\ made[k + 1].kind = trigger.actions[k].type
                 /\ made[k + 1].uid = <<ev.arc, trigger.character, trigger.trigger, k>>
  /\ \A u \in DOMAIN hist :
       (u[4] # 0 /\ hist[u].n > 0)
         => /\ TriggeredOf(u) \in DOMAIN hist
            /\ hist[TriggeredOf(u)].kind = "Triggered"
            /\ hist[TriggeredOf(u)].n = 1

\* The handler waits in send with the event of the first template of a
\* firing: the Triggered event of the firing is on record, the event of
\* the template is not.
C27_TriggeredOutTemplateWaiting ==
  /\ dpc = "log"
  /\ IsSome(dlocal.send)
  /\ Head(dlocal.todo).uid[4] = 1
  /\ hist[Head(dlocal.todo).uid].n = 0
  /\ hist[TriggeredOf(Head(dlocal.todo).uid)].n = 1

\* The driver state changes as the handling of the log event ev may change
\* it: no other log event is received, no command and no tick is handled,
\* actions are only appended to active_actions, and every action appended
\* or emitting is an action of ev.
OnlyHandles(ev) ==
  /\ running' = running
  /\ ticks => ticks'
  /\ dpc' \in {"log", "select"}
  /\ dlocal'.ev \in {Some(ev), None}
  /\ IsPrefix(actions, actions')
  /\ \A i \in (Len(actions) + 1)..Len(actions') : actions'[i].uid[1] = ev.arc
  /\ \A u \in DOMAIN hist' :
       (u \notin DOMAIN hist \/ hist'[u] # hist[u]) => u[1] = ev.arc

\* C28: for one log event, all actions produced by all matching triggers
\* are emitted and inserted into active_actions within one driver step: no
\* tick, no other log event and no command is handled between the insertion
\* of the first and of the last action of that log event.  The step that
\* receives a log event, and every step while its handler has not returned,
\* changes the driver state only as the handling of that event may.
C28_LogEventInOneStep ==
  [][/\ (taken' # taken)
          => \E ev \in taken' \ taken :
               /\ taken' = taken \cup {ev}
               /\ OnlyHandles(ev)
     /\ (dpc = "log")
          => /\ taken' = taken
             /\ OnlyHandles(Unwrap(dlocal.ev))]_vars

\* The handler of a log event waits in send after it has inserted an
\* action of the event and before it has tried the event's last trigger,
\* while a tick, another log event and a command wait for the loop.
C28_OthersWaitForHandler ==
  /\ dpc = "log"
  /\ IsSome(dlocal.send)
  /\ dlocal.trigs # <<>>
  /\ \E i \in 1..Len(actions) : actions[i].uid[1] = Unwrap(dlocal.ev).arc
  /\ ticks
  /\ logs # <<>>
  /\ cmds # <<>>

\* C29: after every completed tick and after every handled log event
\* active_actions holds no finished action; in particular it never holds a
\* Triggered action or a DisplayText action made without delay.  Whenever
\* the driver thread is at its select no active action is finished, and in
\* every state no active action is a Triggered action or a DisplayText
\* action that was made without delay_until.
C29_NoFinishedActionKept ==
  /\ dpc \in {"select", "done"}
       => \A i \in 1..Len(actions) : ~actions[i].finished
  /\ \A i \in 1..Len(actions) :
       /\ actions[i].kind # "Triggered"
       /\ actions[i].kind = "DisplayText" => IsSome(hist[actions[i].uid].due)

\* A tick has been completed in which a delayed DisplayText action emitted
\* its event: the action is no longer active, another action still is.
C29_FinishedActionDropped ==
  /\ dpc = "select"
  /\ actions # <<>>
  /\ \E u \in DOMAIN hist :
       /\ hist[u].kind = "DisplayText"
       /\ IsSome(hist[u].due)
       /\ hist[u].n = 1
       /\ \A i \in 1..Len(actions) : actions[i].uid # u

\* The starts of the complete lines of its file that the reader of c passes
\* in this step from their first character to their newline.
CompleteLinesRead(c) ==
  LET from == Unwrap(reader[c])
      to == Unwrap(reader'[c])
      content == disk[c][from.ino]
      starts == LineStarts(content, 0)
  IN {starts[i] : i \in
        {j \in 1..Len(starts) :
           /\ from.pos <= starts[j]
           /\ starts[j] + Len(ReadLine(content, starts[j])) <= to.pos
           /\ ReadLine(content, starts[j])[Len(ReadLine(content, starts[j]))] = LF}}

\* C30: between two notification callbacks the tailer's frame buffer holds
\* at most one partial line and never a complete line: every complete line
\* read during a Modify is parsed and removed from the buffer before the
\* callback returns.  Whenever a handler is not inside a callback its buffer
\* holds no newline; and every complete line a reader passes in a step has
\* been parsed: if it is of the wire format and the filter admits it, its
\* log event has been sent or is being sent.
C30_NoCompleteLineBetweenCallbacks ==
  /\ [](\A c \in Ids :
          ~IsSome(tsend[c]) => \A i \in 1..Len(buffer[c]) : buffer[c][i] # LF)
  /\ [][\A c \in Ids :
          (/\ IsSome(reader[c]) /\ IsSome(reader'[c])
           /\ Unwrap(reader'[c]).ino = Unwrap(reader[c]).ino
           /\ Unwrap(reader'[c]).pos > Unwrap(reader[c]).pos)
            => \A start \in CompleteLinesRead(c) :
                 LET arc == <<c, Unwrap(reader[c]).ino, start>>
                     line == ReadLine(disk[c][arc[2]], start)
                     ev == LineEvent(c, line, filter[c], arc, now)
                 IN IsSome(ev) => Unwrap(ev) \in Sent']_vars

\* Two lines of c1's file have given their log events, the reader is at the
\* end of the file and no callback is in progress.
C30_LinesParsedBufferClean ==
  /\ notif["c1"] = <<>>
  /\ ~IsSome(tsend["c1"])
  /\ IsSome(reader["c1"])
  /\ Unwrap(reader["c1"]).pos = Len(disk["c1"][Unwrap(reader["c1"]).ino])
  /\ Cardinality({ev \in Sent : ev.arc[1] = "c1"
                                 /\ ev.arc[2] = Unwrap(reader["c1"]).ino}) >= 2

\* C31: set_filter replaces the tailer's predicate under the handler mutex.
\* It never takes effect in the middle of a Modify callback: while a
\* callback of c is in progress the filter of c does not change, and the
\* event a callback is sending was admitted by the filter installed now.
\* Every line of a callback is tested with the predicate installed when its
\* step starts, which for a later callback is the one installed last: of the
\* complete lines the reader passes, exactly those the installed filter
\* admits give a log event.
C31_SetFilterBetweenCallbacks ==
  /\ [][\A c \in Ids : IsSome(tsend[c]) => filter'[c] = filter[c]]_vars
  /\ [](\A c \in Ids :
          IsSome(tsend[c]) => FilterAdmits(filter[c], Unwrap(tsend[c]).message))
  /\ [][\A c \in Ids :
          (/\ IsSome(reader[c]) /\ IsSome(reader'[c])
           /\ Unwrap(reader'[c]).ino = Unwrap(reader[c]).ino
           /\ Unwrap(reader'[c]).pos > Unwrap(reader[c]).pos)
            => \A start \in CompleteLinesRead(c) :
                 LET arc == <<c, Unwrap(reader[c]).ino, start>>
                     line == ReadLine(disk[c][arc[2]], start)
                     ev == LineEvent(c, line, filter[c], arc, now)
                 IN IsSome(ev) <=> (\E e \in Sent' : e.arc = arc)]_vars

\* The callback of c1 waits in send on the full log channel while
\* set_filter waits for its mutex with a predicate that differs from the
\* installed one.
C31_SetFilterWaitsForCallback ==
  /\ IsSome(tsend["c1"])
  /\ lcall.pc = "filters"
  /\ "c1" \in lcall.todo
  /\ TriggersFilter(self_triggers, "c1") # filter["c1"]
\* The notification kinds that LogHandler::handle_event answers with
\* nothing.
Ignored == {"Remove"} \cup NoiseKinds

\* C32: Remove and Access notifications, unknown notification kinds and
\* notifier errors leave the tailer's file handle, read position, frame
\* buffer and filter unchanged and send nothing on the log channel: the
\* step in which a handler takes such a notification changes none of its
\* reader, buffer and filter, and neither the log channel nor a pending
\* send.
C32_IgnoredKindsChangeNothing ==
  [][\A c \in Ids :
       (/\ notif[c] # <<>>
        /\ notif'[c] = Tail(notif[c])
        /\ Head(notif[c]) \in Ignored)
         => /\ reader'[c] = reader[c]
            /\ buffer'[c] = buffer[c]
            /\ filter'[c] = filter[c]
            /\ tsend'[c] = tsend[c]
            /\ logs' = logs]_vars

\* The file of c1 was removed after its handler had read from it; the
\* handler has taken the Remove notification and still holds the reader on
\* the removed file at the position it had reached.
C32_RemoveHandledReaderKept ==
  /\ path["c1"] = 0
  /\ watching["c1"]
  /\ notif["c1"] = <<>>
  /\ IsSome(reader["c1"])
  /\ Unwrap(reader["c1"]).pos > 0
  /\ Unwrap(reader["c1"]).pos = Len(disk["c1"][Unwrap(reader["c1"]).ino])
\* C33: a wire-format line admitted by the filter whose timestamp does not
\* parse is still delivered to the driver as a LogEvent with its message
\* unchanged, the date replaced by the current local time; the line is not
\* dropped.  For every complete line a reader passes in a step, of the wire
\* format and admitted, a log event of that line is sent or being sent, its
\* message the one of the line and, when the timestamp does not parse, its
\* date the wall clock of the step; and once nothing is on its way the
\* driver has received a log event for every admitted line of the file.
C33_BadTimestampStillDelivered ==
  /\ [][\A c \in Ids :
          (/\ IsSome(reader[c]) /\ IsSome(reader'[c])
           /\ Unwrap(reader'[c]).ino = Unwrap(reader[c]).ino
           /\ Unwrap(reader'[c]).pos > Unwrap(reader[c]).pos)
            => \A start \in CompleteLinesRead(c) :
                 LET arc == <<c, Unwrap(reader[c]).ino, start>>
                     parsed == parse_raw_line(ReadLine(disk[c][arc[2]], start))
                 IN (IsSome(parsed) /\ FilterAdmits(filter[c], Unwrap(parsed)[2]))
                      => \E e \in Sent' :
                           /\ e.arc = arc
                           /\ e.id = c
                           /\ e.message = Unwrap(parsed)[2]
                           /\ (Unwrap(parsed)[1] # <<"t">>
                                 => e.date = <<"local", now>>)]_vars
  /\ [](\A c \in Ids :
          (Settled(c) /\ ReadAll(c) /\ WholeLinesWritten(c) /\ Len(disk[c]) = 1) =>
            LET content == disk[c][1]
                starts == LineStarts(content, 0)
            IN \A i \in 1..Len(starts) :
                 LET parsed == parse_raw_line(ReadLine(content, starts[i]))
                 IN (IsSome(parsed) /\ FilterAdmits(filter[c], Unwrap(parsed)[2]))
                      => \E e \in taken :
                           e.arc = <<c, 1, starts[i]>> /\ e.message = Unwrap(parsed)[2])

\* The driver has received the log event of a line of c1 whose timestamp
\* does not parse, read after the clock had advanced: its date is the wall
\* clock of the read and its message the one of the line.
C33_LocalTimeEventTaken ==
  \E e \in taken :
    /\ e.id = "c1"
    /\ ReadLine(disk["c1"][e.arc[2]], e.arc[3]) = <<"[", "u", "]", " ", "a", LF>>
    /\ e.message = <<"a">>
    /\ e.date[1] = "local"
    /\ e.date[2] > 0
\* Messages of log lines: of one letter each search_text of the trigger
\* files is, of two, and of none.
Messages ==
  { <<"a">>, <<"b">>, <<"c">>, <<"d">>, <<"e">>, <<"a", "b">>, <<"e", "c">> }

\* Whether a compiled trigger of character c in the Triggers value matches
\* the message.
CompiledMatches(triggers, c, message) ==
  /\ c \in DOMAIN triggers.compiled
  /\ \E i \in 1..Len(triggers.compiled[c]) :
       IsSome(Captures(triggers.compiled[c][i].regex, message))

\* C34: within one configuration snapshot the prefilter and the compiled
\* triggers of a character are built from the same patterns.  In every
\* Triggers value published, in the configuration cell or in the
\* orchestrator, the filter of character c admits a message exactly when a
\* compiled trigger of c matches it; and a log event the driver takes
\* while the cell holds a snapshot whose filter admits it fires a trigger:
\* when the step is over a Triggered event carrying it is on the bus or
\* the driver waits to send one.
C34_FilterAdmitsWhatTriggersMatch ==
  /\ [](\A triggers \in {config.triggers, self_triggers} :
          \A c \in Ids : \A message \in Messages :
            FilterAdmits(TriggersFilter(triggers, c), message)
              <=> CompiledMatches(triggers, c, message))
  /\ [][(taken' # taken /\ logs # <<>>
          /\ FilterAdmits(TriggersFilter(config.triggers, Head(logs).id),
                          Head(logs).message))
           => \/ \E j \in 1..Len(fired') : fired'[j][1] = Head(logs).arc
              \/ dpc' = "log" /\ dlocal'.ev = Some(Head(logs))]_vars

\* A load has published a snapshot other than the one before it, and the
\* driver has handled a log event of c1 written after the load returned,
\* which the snapshot's filter admits and which has fired.
C34_AdmittedUnderLoadedSnapshotFired ==
  /\ lhist.n = MaxLoads
  /\ lhist.result = "Ok"
  /\ config # lhist.before.config
  /\ \E ev \in Handled :
       /\ ev.id = "c1"
       /\ ev.arc[3] >= lhist.mark["c1"]
       /\ FilterAdmits(TriggersFilter(config.triggers, "c1"), ev.message)
       /\ FiredFor(ev) # <<>>
\* The notifier thread waits in send on the full log channel, inside a
\* callback and so holding the mutex of its handler.
NotifierBlocked == \E c \in Ids : TailerBlocked(c)

\* The driver thread waits in send on the full event bus.
DriverBlocked == BlockedInSend /\ SendBlocks(events)

\* The main thread waits: in set_filter for the mutex of each handler that
\* load has still to refresh, or in drop for the driver to receive Stop.
MainBlocked ==
  \/ /\ lcall.pc = "filters"
     /\ lcall.todo # {}
     /\ \A c \in lcall.todo : HandlerLocked(c)
  \/ cmds # <<>>

\* C35: the system is deadlock-free: in no reachable state are the
\* notifier thread (waiting in send on the full log channel while holding
\* the handler mutex), the driver thread and the main thread all blocked
\* waiting on each other.
C35_NoThreeWayDeadlock ==
  ~(NotifierBlocked /\ DriverBlocked /\ MainBlocked)
\* The action with this history has emitted all it has to: its one event,
\* or for a countdown its final event.
RanOut(h) ==
  /\ h.n >= 1
  /\ h.kind = "Countdown" => h.last = Some(0)

\* C36: while the driver is running, ticks keep occurring and the consumer
\* keeps polling, every action placed in active_actions eventually becomes
\* finished and is removed: whenever the driver holds an action, a later
\* state has no action left, active or in a handler, and every action made
\* has emitted its event, a countdown its final event.
C36_ActionsRunOut ==
  (LiveActions # {}) ~> (LiveActions = {} /\ \A u \in DOMAIN hist : RanOut(hist[u]))

\* Nothing is left of the actions of a line: the driver is at its select
\* without an active action, and a delayed countdown has emitted its event
\* with remaining zero.
C36_DelayedCountdownGone ==
  /\ dpc = "select"
  /\ actions = <<>>
  /\ \E u \in DOMAIN hist :
       /\ hist[u].kind = "Countdown"
       /\ IsSome(hist[u].due)
       /\ hist[u].last = Some(0)
----------------------------------------------------------------------------
\* C37: one UI tick takes at most DrainLimit + 1 events (1001 in the code)
\* from the bus and then returns: inside on_tick at most DrainLimit events
\* have been handled, the pass that handles the one after returns.  Each
\* pass takes the oldest event, so what a tick leaves stays on the bus in
\* order, and the driver only appends.
C37_TickDrainsAtMostLimitPlusOne ==
  [][/\ processed' <= DrainLimit + 1
     /\ (apc' = "tick" => processed' <= DrainLimit)
     /\ ((apc = "tick" /\ processed' > DrainLimit) => apc' = "idle")
     /\ (Len(events') < Len(events)
           => /\ apc = "tick"
              /\ processed' = processed + 1
              /\ events' = Tail(events))
     /\ (Len(events') >= Len(events) => IsPrefix(events, events'))]_vars

\* A tick has returned at the limit and left events on the bus.
C37_TickReturnedAtLimit ==
  /\ apc = "idle"
  /\ processed = DrainLimit + 1
  /\ events # <<>>

----------------------------------------------------------------------------
\* C38: a LogManager::add that returns an error leaves no reader for its
\* path in the dispatcher that was not there before, and no add fails with
\* AlreadyWatching on a reader that a failed add has left.
C38_FailedAddLeavesNoReader ==
  /\ mhist.stale = {}
  /\ ~mhist.blamed

----------------------------------------------------------------------------
\* C39: the triggered list and the message list of the events tab hold at
\* most ListLimit entries (100 in the code) and no timer of the tab has
\* remaining zero.  An event the tab is given comes first in its list, with
\* the earlier entries behind it in their order and the oldest ones left
\* out beyond the limit; a Countdown event with remaining zero leaves no
\* timer under its text, one with remaining time is the timer under its
\* text.
NewestFirst(before, after, entry) ==
  /\ after # <<>>
  /\ Head(after) = entry
  /\ IsPrefix(Tail(after), before)
  /\ Len(after) = IF Len(before) < ListLimit THEN Len(before) + 1 ELSE ListLimit

C39_ListsCappedNewestFirstNoZeroTimer ==
  [][/\ Len(triggereds') <= ListLimit
     /\ Len(messages') <= ListLimit
     /\ \A k \in DOMAIN timers' : timers'[k].remaining # 0
     /\ \A event \in TabEvents :
          TabEvent(event)
            => CASE event.kind = "Triggered" ->
                      NewestFirst(triggereds, triggereds', TriggeredRow(event))
                 [] event.kind = "DisplayText" ->
                      NewestFirst(messages, messages', event.text)
                 [] event.kind = "Countdown" ->
                      IF event.remaining = 0
                        THEN event.text \notin DOMAIN timers'
                        ELSE /\ event.text \in DOMAIN timers'
                             /\ timers'[event.text].remaining = event.remaining]_vars

\* Both lists are full, with different entries, and a timer is shown.
C39_ListsFullTimerShown ==
  /\ Len(triggereds) = ListLimit
  /\ Len(messages) = ListLimit
  /\ triggereds[1] # triggereds[ListLimit]
  /\ messages[1] # messages[ListLimit]
  /\ DOMAIN timers # {}

----------------------------------------------------------------------------
\* C40: the index of a non-empty tab set stays within 0..len-1.  next goes
\* to the tab after the current one and from the last to the first,
\* previous to the tab before it and from the first to the last, and
\* previous after next gives the tab next was called on.
C40_TabIndexWrapsWithinRange ==
  [][/\ tabs'.index \in 0..(tabs'.len - 1)
     /\ tabs'.len = tabs.len
     /\ \A key \in Keys :
          AppOnEvent(key)
            => CASE key = "Ctrl-Right" ->
                      /\ tabs'.index = IF tabs.index = tabs.len - 1
                                         THEN 0 ELSE tabs.index + 1
                      /\ TabsPrevious(tabs') = tabs
                 [] key = "Ctrl-Left" ->
                      tabs'.index = IF tabs.index = 0
                                      THEN tabs.len - 1 ELSE tabs.index - 1
                 [] OTHER -> tabs' = tabs]_vars

\* The last tab of the largest tab set is current: next wraps from here,
\* and previous has wrapped to here or next has walked here.
C40_LastTabCurrent ==
  /\ tabs.len = MaxTabs
  /\ tabs.index = tabs.len - 1

====
